---------------------------- MODULE Spec2Model ----------------------------
(***************************************************************************)
(* The correlated connection of beamng-proto (crates/beamng-proto/src):    *)
(* one duplex stream shared by concurrent callers, an atomic request-id    *)
(* counter, a pending buffer of out-of-order responses, and the Hello      *)
(* handshake of Connection::open.                                          *)
(*                                                                         *)
(* A caller's operation is cut at its suspension points (the awaits on the *)
(* three tokio mutexes and on the stream), so every action is one atomic   *)
(* stretch of the code between two awaits.                                 *)
(***************************************************************************)
EXTENDS Integers, Sequences, FiniteSets, TLC

(***************************************************************************)
(* Bounds of the model.                                                    *)
(***************************************************************************)
\* The id counter is capped here: send_raw is not started once req_id has
\* reached MaxSends (one of them is the handshake's).
MaxSends == 3
\* Frames the peer sends in all.
MaxPeerFrames == 2
\* Stand-in for 2^64, the modulus of u64 arithmetic (TLC's integers are
\* 32 bits wide).  Kept far above MaxSends, as 2^64 is above any run.
U64Mod == 256

(***************************************************************************)
(* rmpv::Value, as far as the connection looks into it.                    *)
(*   k = "str"    text (Value::String, valid UTF-8)             s          *)
(*   k = "bin"    byte string holding valid UTF-8 text          s          *)
(*   k = "badbin" byte string that is not UTF-8                            *)
(*   k = "int"    Value::Integer (unsigned or signed on the wire)  n       *)
(*   k = "f64"    Value::F64, n counts halves: the float is n/2            *)
(*   k = "nil"    Value::Nil                                               *)
(***************************************************************************)
StrV(s) == [k |-> "str", s |-> s, n |-> 0]
BinV(s) == [k |-> "bin", s |-> s, n |-> 0]
BadBinV == [k |-> "badbin", s |-> "", n |-> 0]
IntV(n) == [k |-> "int", s |-> "", n |-> n]
F64V(h) == [k |-> "f64", s |-> "", n |-> h]
NilV    == [k |-> "nil", s |-> "", n |-> 0]

\* Option<_>: a sequence of length 0 (None) or 1 (Some).
None == <<>>
Some(x) == <<x>>
IsSome(o) == Len(o) = 1
Unwrap(o) == o[1]
UnwrapOr(o, d) == IF IsSome(o) THEN o[1] ELSE d
AndThen(o, F(_)) == IF IsSome(o) THEN F(o[1]) ELSE None

\* The protocol version this client speaks.
PROTOCOL_VERSION == "v1.26"

(***************************************************************************)
(* types.rs                                                                *)
(***************************************************************************)
\* value_as_str: String, or Binary that is valid UTF-8.
value_as_str(val) ==
    CASE val.k = "str" -> Some(val.s)
      [] val.k = "bin" -> Some(val.s)
      [] OTHER -> None

\* rmpv's Value::as_str, used by check_sim_error: the String variant only.
as_str(val) == IF val.k = "str" THEN Some(val.s) ELSE None

\* key_to_string: a map key as text.
key_to_string(val) ==
    CASE val.k = "str" -> Some(val.s)
      [] val.k = "bin" -> Some(val.s)
      [] OTHER -> None

\* Fault model: a coercion that takes whatever is no number for 0.
value_as_u64_or_zero(val) ==
    CASE val.k = "int" /\ val.n >= 0 -> Some(val.n)
      [] val.k = "int" /\ val.n < 0  -> Some(U64Mod + val.n)
      [] val.k = "f64" /\ val.n < 0  -> Some(0)
      [] val.k = "f64" /\ val.n >= 0 ->
            Some(IF val.n \div 2 >= U64Mod THEN U64Mod - 1 ELSE val.n \div 2)
      [] OTHER -> Some(0)

\* value_as_u64: as_u64, or_else as_i64 cast with `as u64` (wrapping),
\* or_else as_f64 cast with `as u64` (truncating toward zero, saturating).
value_as_u64(val) ==
    CASE val.k = "int" /\ val.n >= 0 -> Some(val.n)
      [] val.k = "int" /\ val.n < 0  -> Some(U64Mod + val.n)
      [] val.k = "f64" /\ val.n < 0  -> Some(0)
      [] val.k = "f64" /\ val.n >= 0 ->
            Some(IF val.n \div 2 >= U64Mod THEN U64Mod - 1 ELSE val.n \div 2)
      [] OTHER -> None

\* StrDict = HashMap<String, rmpv::Value>: a function from its keys.
EmptyDict == [x \in {} |-> NilV]
Get(dict, key) == IF key \in DOMAIN dict THEN Some(dict[key]) ELSE None
Insert(dict, key, v) ==
    [x \in DOMAIN dict \cup {key} |-> IF x = key THEN v ELSE dict[x]]

\* value_to_str_dict on the pairs of a Value::Map, in order: None as soon as
\* a key is not text, a repeated key keeps its last value.
RECURSIVE pairs_to_dict(_, _)
pairs_to_dict(pairs, map) ==
    IF pairs = <<>> THEN Some(map)
    ELSE LET key == key_to_string(Head(pairs)[1])
         IN  IF ~IsSome(key) THEN None
             ELSE pairs_to_dict(Tail(pairs),
                                Insert(map, Unwrap(key), Head(pairs)[2]))

(***************************************************************************)
(* What lies in one frame: a msgpack map (its pairs in order), a msgpack   *)
(* value that is no map, or bytes that are no msgpack value.               *)
(***************************************************************************)
MapFrame(pairs) == [enc |-> "map", pairs |-> pairs]
NotMapFrame     == [enc |-> "notmap", pairs |-> <<>>]
GarbageFrame    == [enc |-> "garbage", pairs |-> <<>>]

value_to_str_dict(frame) ==
    IF frame.enc = "map" THEN pairs_to_dict(frame.pairs, EmptyDict) ELSE None

(***************************************************************************)
(* error.rs: BngError, and Result<_>.  One record shape for every result:  *)
(*   st   "Ok" | "Err" | "None" (no result yet)                            *)
(*   kind the BngError variant; a, b its texts                             *)
(*   dict the StrDict of Ok(dict); id the u64 of Ok(id);                   *)
(*   val  the Option<Value> of message's Ok, the Vec<u8> of read_frame's   *)
(***************************************************************************)
NoResult == [st |-> "None", kind |-> "", a |-> "", b |-> "",
             dict |-> EmptyDict, id |-> -1, val |-> None]
Err(kind, a, b) == [NoResult EXCEPT !.st = "Err", !.kind = kind, !.a = a, !.b = b]
OkDict(d) == [NoResult EXCEPT !.st = "Ok", !.dict = d]
OkId(i)   == [NoResult EXCEPT !.st = "Ok", !.id = i]
OkUnit    == [NoResult EXCEPT !.st = "Ok"]
OkVal(o)  == [NoResult EXCEPT !.st = "Ok", !.val = o]
OkBytes(b) == [NoResult EXCEPT !.st = "Ok", !.val = b]

SimulatorError(msg) == Err("SimulatorError", msg, "")
ValueError(msg)     == Err("ValueError", msg, "")
Disconnected(msg)   == Err("Disconnected", msg, "")
ProtocolMismatch(ours, theirs) == Err("ProtocolMismatch", ours, theirs)
UnexpectedResponseType(expected, got) == Err("UnexpectedResponseType", expected, got)
MissingId == Err("MissingId", "", "")
Io(what)  == Err("Io", what, "")
MsgpackDecode(what) == Err("MsgpackDecode", what, "")


(***************************************************************************)
(* connection.rs: the state of one Connection and of the tasks using it.   *)
(***************************************************************************)
\* The task that runs Connection::open, and the callers it hands the
\* connection to.
Opener == 0
Callers == {1, 2}
Tasks == {Opener} \cup Callers
\* No holder of a mutex.
Free == -1

VARIABLES
    phase,       \* open's progress: "hello", then "open" (Ok(conn)) or "failed"
    req_id,      \* Connection.req_id, the AtomicU64
    buffered,    \* Connection.buffered: id -> ResponsePayload
    reader,      \* holder of Connection.reader's mutex, or Free
    writer,      \* holder of Connection.writer's mutex, or Free
    bufLock,     \* holder of Connection.buffered's mutex, or Free
    toPeer,      \* the frames written to the write half, in order
    fromPeer,    \* the frames the peer has sent and no task has read yet
    peerSent,    \* how many frames the peer has sent
    peerClosed,  \* the peer has closed its side of the stream
    op,          \* per task: the operation it is in
    pc,          \* per task: its suspension point
    rid,         \* per task: send_raw's req_id, then recv's req_id
    rtype,       \* per task: req_type
    atype,       \* per task: ack's ack_type
    pend,        \* per task: the foreign (msg_id, stored) between read and insert
    ret,         \* per task: what its last recv returned
    out,         \* per task: what its last operation returned
    \* History, read by no action:
    allocated,   \* the ids next_id has returned, in the order of the fetch_adds
    via,         \* per task: where its last recv took its result: "buffer",
                 \* "stream", or "reordered" (the stream, after it deposited)
    matched,     \* per task: the message its last recv matched on the stream
    seen,        \* per task: the (msg_id, stored) its running recv has deposited
    answered,    \* the ids a well-behaved peer has answered
    issued,      \* the ids a disciplined caller has called recv for
    \* frame.rs, byte by byte:
    wire,        \* the bytes written to a stream and not read yet
    wireEnd,     \* "open", "eof" (the writing side has closed it), "error"
    written,     \* the payloads write_frame was called with, in order
    rstate,      \* read_frame: "idle", "read_u32", "read_exact"
    hdr,         \* read_u32: the header bytes read so far
    len,         \* read_frame: len
    buf,         \* read_exact: the payload bytes read so far
    results      \* what the calls of read_frame have returned, in order

codec == <<wire, wireEnd, written, rstate, hdr, len, buf, results>>

vars == <<phase, req_id, buffered, reader, writer, bufLock, toPeer, fromPeer,
          peerSent, peerClosed, op, pc, rid, rtype, atype, pend, ret, out,
          allocated, via, matched, seen, answered, issued, codec>>

conn == <<req_id, buffered, reader, writer, bufLock, toPeer, allocated>>
peer == <<fromPeer, peerSent, peerClosed, answered>>
args == <<rtype, atype>>
hist == <<via, matched>>

NoPend == [id |-> -1, stored |-> NoResult]

Init ==
    /\ phase = "hello"
    /\ req_id = 0
    /\ buffered = [x \in {} |-> NoResult]
    /\ reader = Free /\ writer = Free /\ bufLock = Free
    /\ toPeer = <<>> /\ fromPeer = <<>>
    /\ peerSent = 0 /\ peerClosed = FALSE
    /\ op = [t \in Tasks |-> "none"]
    /\ pc = [t \in Tasks |-> "idle"]
    /\ rid = [t \in Tasks |-> -1]
    /\ rtype = [t \in Tasks |-> ""]
    /\ atype = [t \in Tasks |-> ""]
    /\ pend = [t \in Tasks |-> NoPend]
    /\ ret = [t \in Tasks |-> NoResult]
    /\ out = [t \in Tasks |-> NoResult]
    /\ allocated = <<>>
    /\ via = [t \in Tasks |-> ""]
    /\ matched = [t \in Tasks |-> None]
    /\ seen = [t \in Tasks |-> <<>>]
    /\ answered = {}
    /\ issued = {}
    /\ wire = <<>> /\ wireEnd = "open" /\ written = <<>>
    /\ rstate = "idle" /\ hdr = <<>> /\ len = 0 /\ buf = <<>>
    /\ results = <<>>

(***************************************************************************)
(* The checks after request's recv has returned: hello, ack, message.      *)
(***************************************************************************)
\* Fault model: a lookup that never finds the key.
TextOfNothing(resp, key) == ""
\* resp.get(key).and_then(value_as_str).unwrap_or("")
TextOf(resp, key) == UnwrapOr(AndThen(Get(resp, key), value_as_str), "")

\* Fault model: hello that looks at the type before the version.
helloTypeFirst(r) ==
    IF r.st = "Err" THEN r
    ELSE LET version == TextOf(r.dict, "protocolVersion")
             resp_type == TextOf(r.dict, "type")
         IN  IF resp_type # "Hello"
             THEN UnexpectedResponseType("Hello", resp_type)
             ELSE IF version # PROTOCOL_VERSION
                  THEN ProtocolMismatch(PROTOCOL_VERSION, version)
                  ELSE OkUnit

hello(r) ==
    IF r.st = "Err" THEN r
    ELSE LET version == TextOf(r.dict, "protocolVersion")
             resp_type == TextOf(r.dict, "type")
         IN  IF version # PROTOCOL_VERSION
             THEN ProtocolMismatch(PROTOCOL_VERSION, version)
             ELSE IF resp_type # "Hello"
                  THEN UnexpectedResponseType("Hello", resp_type)
                  ELSE OkUnit

\* Fault model: ack that does not look at the response's type.
ack_any_type(ack_type, r) == IF r.st = "Err" THEN r ELSE OkUnit

ack(ack_type, r) ==
    IF r.st = "Err" THEN r
    ELSE LET got == TextOf(r.dict, "type")
         IN  IF got # ack_type THEN UnexpectedResponseType(ack_type, got)
             ELSE OkUnit

\* Fault model: message that does not look at the response's type.
message_any_type(req_type, r) ==
    IF r.st = "Err" THEN r ELSE OkVal(Get(r.dict, "result"))

message(req_type, r) ==
    IF r.st = "Err" THEN r
    ELSE LET resp_type == TextOf(r.dict, "type")
         IN  IF resp_type # req_type
             THEN UnexpectedResponseType(req_type, resp_type)
             ELSE OkVal(Get(r.dict, "result"))

\* What operation o returns once its recv has returned r.
Finish(o, req_type, ack_type, r) ==
    CASE o = "hello"   -> hello(r)
      [] o = "ack"     -> ack(ack_type, r)
      [] o = "message" -> message(req_type, r)
      [] OTHER         -> r

\* Fault model: open that returns the connection whatever hello returned.
OpenRegardless(t, result) == IF op[t] = "hello" THEN "open" ELSE phase
\* open and from_stream: `conn.hello().await?; Ok(conn)`.
open(t, result) ==
    IF op[t] = "hello"
    THEN IF result.st = "Ok" THEN "open" ELSE "failed"
    ELSE phase

\* Task t's operation returns: r from its recv (NoResult when it did not
\* come to receive), result to its caller.
Return(t, r, result) ==
    /\ pc' = [pc EXCEPT ![t] = "idle"]
    /\ ret' = [ret EXCEPT ![t] = r]
    /\ out' = [out EXCEPT ![t] = result]
    /\ phase' = open(t, result)
    /\ seen' = [seen EXCEPT ![t] = <<>>]

\* recv of task t returns r.
RecvReturns(t, r) == Return(t, r, Finish(op[t], rtype[t], atype[t], r))

(***************************************************************************)
(* The three tokio mutexes: lock().await returns once no task holds one.   *)
(***************************************************************************)
\* Fault model: a lock that excludes nobody.
MutexNeverHeld(holder) == TRUE
MutexFree(holder) == holder = Free

\* Fault model: a guard that outlives its block and stays with its holder.
GuardKept(holder) == holder
\* A MutexGuard goes out of scope: the mutex is unlocked.
Dropped(holder) == Free

\* Fault model: a guard that is leaked when `?` returns early.
LeakedOnError(holder) == holder
\* `?` returns the error with a guard in scope: the guard is dropped on the
\* way out and the mutex is unlocked.
Unwound(holder) == Free

(***************************************************************************)
(* send_raw                                                                *)
(***************************************************************************)
\* Fault model: a counter that is read and not advanced.
FetchAddNothing(cur) == cur
\* next_id: fetch_add(1) returns the old value; the new one wraps.
FetchAdd(cur) == (cur + 1) % U64Mod

\* The msgpack map send_raw builds: type, _id, then the fields.
Request(req_type, id, fields) ==
    MapFrame(<< <<StrV("type"), StrV(req_type)>>, <<StrV("_id"), IntV(id)>> >>
             \o fields)

\* hello's fields; the callers of the model pass none.
FieldsOf(o) ==
    IF o = "hello" THEN << <<StrV("protocolVersion"), StrV(PROTOCOL_VERSION)>> >>
    ELSE <<>>

\* Task t enters operation o, which starts with send_raw: next_id, and the
\* message is built and packed; the task then waits for the writer.
EnterSendRaw(t, o, req_type, ack_type) ==
    /\ pc[t] = "idle"
    /\ req_id < MaxSends
    /\ op' = [op EXCEPT ![t] = o]
    /\ rtype' = [rtype EXCEPT ![t] = req_type]
    /\ atype' = [atype EXCEPT ![t] = ack_type]
    /\ rid' = [rid EXCEPT ![t] = req_id]
    /\ req_id' = FetchAdd(req_id)
    /\ allocated' = Append(allocated, req_id)
    /\ pc' = [pc EXCEPT ![t] = "writer_lock"]
    /\ ret' = [ret EXCEPT ![t] = NoResult]
    /\ out' = [out EXCEPT ![t] = NoResult]
    /\ via' = [via EXCEPT ![t] = ""]
    /\ matched' = [matched EXCEPT ![t] = None]
    /\ seen' = [seen EXCEPT ![t] = <<>>]
    /\ UNCHANGED <<phase, buffered, reader, writer, bufLock, toPeer, peer, pend,
                   issued, codec>>

\* self.writer.lock().await
WriterLock(t) ==
    /\ pc[t] = "writer_lock"
    /\ MutexFree(writer)
    /\ writer' = t
    /\ pc' = [pc EXCEPT ![t] = "write_frame"]
    /\ UNCHANGED <<phase, req_id, buffered, reader, bufLock, toPeer, peer, op,
                   rid, args, pend, ret, out, allocated, hist, seen,
                   issued, codec>>

\* Fault model: send_raw that waits for the response as request does.
ThenRecvAlways(o) == TRUE
\* After send_raw has returned Ok(req_id), operation o goes on to
\* recv(req_id): request does, and hello, ack and message through it;
\* send_raw called by itself does not.
ThenRecv(o) == o # "send_raw"

\* write_frame has written the whole frame: the peer has the request, the
\* guard is dropped and send_raw returns Ok(req_id), to the caller, or to
\* request, which goes on to recv(req_id).
FrameWritten(t) ==
    /\ toPeer' = Append(toPeer, [by |-> t,
                                 frame |-> Request(rtype[t], rid[t], FieldsOf(op[t]))])
    /\ writer' = Dropped(writer)
    /\ IF ~ThenRecv(op[t])
       THEN Return(t, NoResult, OkId(rid[t]))
       ELSE /\ pc' = [pc EXCEPT ![t] = "buf_lock"]
            /\ UNCHANGED <<phase, ret, out, seen>>
    /\ UNCHANGED <<req_id, buffered, reader, bufLock, peer, op, rid, args,
                   pend, allocated, hist, issued>>

\* write_frame succeeds, taken as one step.
WriteFrame(t) ==
    /\ pc[t] = "write_frame"
    /\ writer = t
    /\ FrameWritten(t)
    /\ UNCHANGED codec

\* write_frame fails (the transport refuses the bytes): `?` drops the guard
\* and the error goes up through send_raw and request.
WriteFail(t) ==
    /\ pc[t] = "write_frame"
    /\ writer = t
    /\ writer' = Unwound(writer)
    /\ Return(t, NoResult, Io("write"))
    /\ UNCHANGED <<req_id, buffered, reader, bufLock, toPeer, peer, op, rid,
                   args, pend, allocated, hist, issued, codec>>

(***************************************************************************)
(* recv                                                                    *)
(***************************************************************************)
\* Fault model: check_sim_error that looks for bngValueError first.
check_value_error_first(dict) ==
    IF "bngValueError" \in DOMAIN dict
    THEN Some(ValueError(UnwrapOr(as_str(dict["bngValueError"]),
                                  "unknown value error")))
    ELSE IF "bngError" \in DOMAIN dict
         THEN Some(SimulatorError(UnwrapOr(as_str(dict["bngError"]),
                                           "unknown error")))
         ELSE None

\* check_sim_error: bngError first, then bngValueError.
check_sim_error(dict) ==
    IF "bngError" \in DOMAIN dict
    THEN Some(SimulatorError(UnwrapOr(as_str(dict["bngError"]), "unknown error")))
    ELSE IF "bngValueError" \in DOMAIN dict
         THEN Some(ValueError(UnwrapOr(as_str(dict["bngValueError"]),
                                       "unknown value error")))
         ELSE None

\* read_one_message on the bytes of one frame: decode, then value_to_str_dict.
read_one_message(frame) ==
    IF frame.enc = "garbage" THEN Io("decode")
    ELSE LET dict == value_to_str_dict(frame)
         IN  IF IsSome(dict) THEN OkDict(Unwrap(dict)) ELSE MissingId

\* dict.get("_id").and_then(value_as_u64)
msg_id_of(dict) == AndThen(Get(dict, "_id"), value_as_u64)

\* The ResponsePayload of a message, which is also what recv returns for it:
\* Ok(dict), or the simulator's error.
Payload(dict) ==
    LET payload == check_sim_error(dict)
    IN  IF IsSome(payload) THEN Unwrap(payload) ELSE OkDict(dict)

\* Fault model: recv takes the first message that comes.
IsAwaitedAlways(msg_id, awaited) == TRUE
\* Fault model: recv takes no message for its own and buffers them all.
IsAwaitedNever(msg_id, awaited) == FALSE
\* `if msg_id == req_id`
IsAwaited(msg_id, awaited) == msg_id = awaited

\* Fault model: the entry is read (get) and left in the map.
RemoveNothing(map, key) == map
\* Fault model: the lookup empties the map (clear).
RemoveAll(map, key) == EmptyDict
\* buffered.remove(&req_id): the map without the key.
Remove(map, key) == [x \in DOMAIN map \ {key} |-> map[x]]

\* Fault model: entry(msg_id).or_insert(stored), which keeps an earlier payload.
BufferInsertIfAbsent(map, key, stored) ==
    [x \in DOMAIN map \cup {key} |-> IF x \in DOMAIN map THEN map[x] ELSE stored]
\* buffered.insert(msg_id, stored): a payload already under the key is replaced.
BufferInsert(map, key, stored) ==
    [x \in DOMAIN map \cup {key} |-> IF x = key THEN stored ELSE map[x]]

\* A caller calls recv(id): it waits for the buffer's mutex.
EnterRecv(t, id) ==
    /\ pc[t] = "idle"
    /\ op' = [op EXCEPT ![t] = "recv"]
    /\ rid' = [rid EXCEPT ![t] = id]
    /\ rtype' = [rtype EXCEPT ![t] = ""]
    /\ atype' = [atype EXCEPT ![t] = ""]
    /\ pc' = [pc EXCEPT ![t] = "buf_lock"]
    /\ ret' = [ret EXCEPT ![t] = NoResult]
    /\ out' = [out EXCEPT ![t] = NoResult]
    /\ via' = [via EXCEPT ![t] = ""]
    /\ matched' = [matched EXCEPT ![t] = None]
    /\ seen' = [seen EXCEPT ![t] = <<>>]
    /\ UNCHANGED <<phase, conn, peer, pend>>

\* self.buffered.lock().await, at the top of recv
BufLock(t) ==
    /\ pc[t] = "buf_lock"
    /\ MutexFree(bufLock)
    /\ bufLock' = t
    /\ pc' = [pc EXCEPT ![t] = "buf_check"]
    /\ UNCHANGED <<phase, req_id, buffered, reader, writer, toPeer, peer, op,
                   rid, args, pend, ret, out, allocated, hist, seen,
                   issued, codec>>

\* "Check the buffer first": remove and return the payload of req_id, or
\* leave the block (the guard is dropped either way) and go to read.
BufCheck(t) ==
    /\ pc[t] = "buf_check"
    /\ bufLock = t
    /\ bufLock' = Dropped(bufLock)
    /\ IF rid[t] \in DOMAIN buffered
       THEN /\ buffered' = Remove(buffered, rid[t])
            /\ RecvReturns(t, buffered[rid[t]])
            /\ via' = [via EXCEPT ![t] = "buffer"]
       ELSE /\ pc' = [pc EXCEPT ![t] = "reader_lock"]
            /\ UNCHANGED <<buffered, phase, ret, out, via, seen>>
    /\ UNCHANGED <<req_id, reader, writer, toPeer, peer, op, rid, args, pend,
                   allocated, matched, issued, codec>>

\* self.reader.lock().await, in read_one_message
ReaderLock(t) ==
    /\ pc[t] = "reader_lock"
    /\ MutexFree(reader)
    /\ reader' = t
    /\ pc' = [pc EXCEPT ![t] = "read_frame"]
    /\ UNCHANGED <<phase, req_id, buffered, writer, bufLock, toPeer, peer, op,
                   rid, args, pend, ret, out, allocated, hist, seen,
                   issued, codec>>

\* read_frame returns the next frame and the reader's guard is dropped; the
\* rest of the loop body up to the next await: decode, extract the id,
\* classify, and return the message or keep it for the buffer.
ReadFrame(t) ==
    /\ pc[t] = "read_frame"
    /\ reader = t
    /\ fromPeer # <<>>
    /\ fromPeer' = Tail(fromPeer)
    /\ reader' = Dropped(reader)
    /\ LET msg == read_one_message(Head(fromPeer))
           msg_id == IF msg.st = "Ok" THEN msg_id_of(msg.dict) ELSE None
       IN  IF msg.st = "Err"
           THEN RecvReturns(t, msg) /\ UNCHANGED <<pend, via, matched>>
           ELSE IF ~IsSome(msg_id)
           THEN RecvReturns(t, MissingId) /\ UNCHANGED <<pend, via, matched>>
           ELSE IF IsAwaited(Unwrap(msg_id), rid[t])
           THEN /\ RecvReturns(t, Payload(msg.dict))
                /\ via' = [via EXCEPT ![t] =
                             IF seen[t] = <<>> THEN "stream" ELSE "reordered"]
                /\ matched' = [matched EXCEPT ![t] = Some(msg.dict)]
                /\ pend' = pend
           ELSE /\ pend' = [pend EXCEPT ![t] =
                              [id |-> Unwrap(msg_id), stored |-> Payload(msg.dict)]]
                /\ pc' = [pc EXCEPT ![t] = "insert_lock"]
                /\ UNCHANGED <<phase, ret, out, via, matched, seen>>
    /\ UNCHANGED <<req_id, buffered, writer, bufLock, toPeer, peerSent,
                   peerClosed, answered, op, rid, args, allocated,
                   issued, codec>>

\* read_frame meets the end of the stream at a frame's header: Disconnected.
ReadEof(t) ==
    /\ pc[t] = "read_frame"
    /\ reader = t
    /\ fromPeer = <<>>
    /\ peerClosed
    /\ reader' = Unwound(reader)
    /\ RecvReturns(t, Disconnected("Connection closed while reading frame header"))
    /\ UNCHANGED <<req_id, buffered, writer, bufLock, toPeer, peer, op, rid,
                   args, pend, allocated, hist, issued, codec>>

\* self.buffered.lock().await, in "Buffer out-of-order message"
InsertLock(t) ==
    /\ pc[t] = "insert_lock"
    /\ MutexFree(bufLock)
    /\ bufLock' = t
    /\ pc' = [pc EXCEPT ![t] = "insert"]
    /\ UNCHANGED <<phase, req_id, buffered, reader, writer, toPeer, peer, op,
                   rid, args, pend, ret, out, allocated, hist, seen,
                   issued, codec>>

\* .insert(msg_id, stored); the guard is dropped with the statement and the
\* loop goes round to read_one_message.
BufInsert(t) ==
    /\ pc[t] = "insert"
    /\ bufLock = t
    /\ bufLock' = Dropped(bufLock)
    /\ buffered' = BufferInsert(buffered, pend[t].id, pend[t].stored)
    /\ seen' = [seen EXCEPT ![t] = Append(@, pend[t])]
    /\ pend' = [pend EXCEPT ![t] = NoPend]
    /\ pc' = [pc EXCEPT ![t] = "reader_lock"]
    /\ UNCHANGED <<phase, req_id, reader, writer, toPeer, peer, op, rid, args,
                   ret, out, allocated, via, matched, issued, codec>>

(***************************************************************************)
(* The callers and the peer.                                               *)
(***************************************************************************)
ReqTypes == {"Pause"}
AckTypes == {"Paused"}
\* The ids a caller passes to recv.
AwaitIds == 0..(MaxSends - 1)

\* open (from_stream): the connection is built and hello sends its request.
OpenHello ==
    /\ phase = "hello"
    /\ op[Opener] = "none"
    /\ EnterSendRaw(Opener, "hello", "Hello", "")

CallSendRaw(t) ==
    /\ phase = "open"
    /\ \E rt \in ReqTypes : EnterSendRaw(t, "send_raw", rt, "")

CallRequest(t) ==
    /\ phase = "open"
    /\ \E rt \in ReqTypes : EnterSendRaw(t, "request", rt, "")

CallAck(t) ==
    /\ phase = "open"
    /\ \E rt \in ReqTypes, at \in AckTypes : EnterSendRaw(t, "ack", rt, at)

CallMessage(t) ==
    /\ phase = "open"
    /\ \E rt \in ReqTypes : EnterSendRaw(t, "message", rt, "")

CallRecv(t) ==
    /\ phase = "open"
    /\ \E id \in AwaitIds : EnterRecv(t, id)
    /\ UNCHANGED <<issued, codec>>

\* A response as the peer builds it: type, _id, then more pairs.
Response(ty, idv, more) ==
    MapFrame(<< <<StrV("type"), StrV(ty)>>, <<StrV("_id"), idv>> >> \o more)

Version(v) == << <<StrV("protocolVersion"), StrV(v)>> >>

\* The type a peer answers a request with: Hello to the handshake (id 0).
TypeFor(i) == IF i = 0 THEN "Hello" ELSE "Paused"
Answer(i) == Response(TypeFor(i), IntV(i), Version(PROTOCOL_VERSION))

\* The peer sends frame f.
PeerSends(f) ==
    /\ ~peerClosed
    /\ peerSent < MaxPeerFrames
    /\ fromPeer' = Append(fromPeer, f)
    /\ peerSent' = peerSent + 1
    /\ UNCHANGED <<phase, conn, peerClosed, answered, op, pc, rid, args, pend,
                   ret, out, hist, seen, issued, codec>>

\* The peer closes the stream.
PeerClose ==
    /\ ~peerClosed
    /\ peerClosed' = TRUE
    /\ UNCHANGED <<phase, conn, fromPeer, peerSent, answered, op, pc, rid, args,
                   pend, ret, out, hist, seen, issued, codec>>

\* The steps of a task inside an operation when the transport does not fail.
Step(t) ==
    \/ WriterLock(t)
    \/ WriteFrame(t)
    \/ BufLock(t)
    \/ BufCheck(t)
    \/ ReaderLock(t)
    \/ ReadFrame(t)
    \/ InsertLock(t)
    \/ BufInsert(t)

(***************************************************************************)
(* Spec: after the handshake (a request) two callers share the connection  *)
(* and issue send_raw and recv in any interleaving; the peer sends, in any *)
(* order, well-formed responses for any id in use and a message that is no *)
(* map.                                                                    *)
(***************************************************************************)
PeerFrames == { Answer(i) : i \in AwaitIds } \cup {NotMapFrame}

PeerSend == \E f \in PeerFrames : PeerSends(f)

Next ==
    \/ OpenHello
    \/ \E t \in Callers : CallSendRaw(t)
    \/ \E t \in Callers : CallRecv(t)
    \/ \E t \in Tasks : Step(t)
    \/ PeerSend

Spec == Init /\ [][Next]_vars

(***************************************************************************)
(* SpecSeq: one caller uses the connection, one operation after the other  *)
(* (request, send_raw, recv), as in test_request_response_correlation; the *)
(* peer sends well-formed responses in any order, among them responses for *)
(* an id nobody has asked for yet.                                         *)
(***************************************************************************)
\* The id of the out-of-order response in test_request_response_correlation.
FutureId == 99
\* Frames the peer sends in all.
MaxSeqFrames == 3
TheCaller == 1

SeqFrames ==
    { Answer(i) : i \in AwaitIds }
        \cup { Response(ty, IntV(FutureId), <<>>) : ty \in {"Future", "Paused"} }

PeerSendSeq ==
    /\ peerSent < MaxSeqFrames
    /\ \E f \in SeqFrames :
          /\ fromPeer' = Append(fromPeer, f)
          /\ peerSent' = peerSent + 1
    /\ UNCHANGED <<phase, conn, peerClosed, answered, op, pc, rid, args, pend,
                   ret, out, hist, seen, issued, codec>>

NextSeq ==
    \/ OpenHello
    \/ CallSendRaw(TheCaller)
    \/ CallRequest(TheCaller)
    \/ CallRecv(TheCaller)
    \/ \E t \in {Opener, TheCaller} : Step(t)
    \/ PeerSendSeq

SpecSeq == Init /\ [][NextSeq]_vars


(***************************************************************************)
(* SpecHello: the handshake against any peer.  The peer's frames carry the *)
(* handshake's id, a type or none, a protocolVersion or none, and possibly *)
(* a simulator error; it may also send a response for another id.  Once    *)
(* open has returned the connection, its caller issues send_raw.           *)
(***************************************************************************)
\* Frames the peer sends in all.
MaxHelloFrames == 2
\* A version string that is not the client's (test_protocol_mismatch).
OtherVersion == "v0.99"

\* The pairs of an optional text field of a response.
Field(key, text) ==
    IF IsSome(text) THEN << <<StrV(key), StrV(Unwrap(text))>> >> ELSE <<>>

\* A response to the handshake: _id 0, with or without type, protocolVersion
\* and an error key.
HelloResponse(ty, version, err) ==
    MapFrame(Field("type", ty) \o << <<StrV("_id"), IntV(0)>> >>
             \o Field("protocolVersion", version)
             \o (IF IsSome(err) THEN Field(Unwrap(err), Some("boom")) ELSE <<>>))

HelloFrames ==
    { HelloResponse(ty, version, err) :
        ty \in {Some("Hello"), Some("Paused"), None},
        version \in {Some(PROTOCOL_VERSION), Some(OtherVersion), None},
        err \in {Some("bngError"), Some("bngValueError"), None} }
        \cup {Answer(1)}

PeerSendHello ==
    /\ peerSent < MaxHelloFrames
    /\ \E f \in HelloFrames :
          /\ fromPeer' = Append(fromPeer, f)
          /\ peerSent' = peerSent + 1
    /\ UNCHANGED <<phase, conn, peerClosed, answered, op, pc, rid, args, pend,
                   ret, out, hist, seen, issued, codec>>

NextHello ==
    \/ OpenHello
    \/ CallSendRaw(TheCaller)
    \/ \E t \in {Opener, TheCaller} : Step(t)
    \/ PeerSendHello

SpecHello == Init /\ [][NextHello]_vars


(***************************************************************************)
(* SpecFair: the callers issue request concurrently, each for the id its   *)
(* send_raw allocated; the peer answers every request it has received      *)
(* exactly once, with the request's id, in any order.  A task that can     *)
(* take a step infinitely often takes it (the runtime polls a woken task   *)
(* and tokio's mutexes serve their waiters in turn), and the peer leaves   *)
(* no request unanswered.                                                  *)
(***************************************************************************)
\* The `_id` of a request on the wire, as the peer reads it.
RequestId(frame) == Unwrap(msg_id_of(Unwrap(value_to_str_dict(frame))))

\* The peer answers one request it has not answered yet.
PeerAnswer ==
    \E i \in 1..Len(toPeer) :
        LET id == RequestId(toPeer[i].frame)
        IN  /\ id \notin answered
            /\ answered' = answered \cup {id}
            /\ fromPeer' = Append(fromPeer, Answer(id))
            /\ peerSent' = peerSent + 1
            /\ UNCHANGED <<phase, conn, peerClosed, op, pc, rid, args, pend,
                           ret, out, hist, seen, issued, codec>>

NextFair ==
    \/ OpenHello
    \/ \E t \in Callers : CallRequest(t)
    \/ \E t \in Tasks : Step(t)
    \/ PeerAnswer

Fairness ==
    /\ WF_vars(OpenHello)
    /\ WF_vars(PeerAnswer)
    /\ \A t \in Tasks : SF_vars(Step(t))

SpecFair == Init /\ [][NextFair]_vars /\ Fairness


(***************************************************************************)
(* SpecPipe: disciplined callers and a well-behaved peer.  The callers     *)
(* send with send_raw, possibly several requests before any recv, and call *)
(* recv exactly once for every id sent; the peer answers every request it  *)
(* has received exactly once, in any order, and sends nothing else.        *)
(***************************************************************************)
\* The ids of the requests the callers have written so far.
SentIds ==
    { RequestId(toPeer[i].frame) :
        i \in { j \in 1..Len(toPeer) : toPeer[j].by \in Callers } }

\* A caller calls recv for an id that was sent and that no recv was called
\* for yet.
CallRecvOnce(t) ==
    /\ phase = "open"
    /\ \E id \in SentIds \ issued :
          /\ EnterRecv(t, id)
          /\ issued' = issued \cup {id}
    /\ UNCHANGED codec

NextPipe ==
    \/ OpenHello
    \/ \E t \in Callers : CallSendRaw(t)
    \/ \E t \in Callers : CallRecvOnce(t)
    \/ \E t \in Tasks : Step(t)
    \/ PeerAnswer

SpecPipe == Init /\ [][NextPipe]_vars


(***************************************************************************)
(* SpecErr: one caller issues requests one after the other; the peer       *)
(* answers each request it has received once, with any of: a response that *)
(* carries no, one or both error keys; a response whose `_id` is encoded   *)
(* as an integer, a float, or no number at all, or is missing; a value     *)
(* that is no map; bytes that are no msgpack value.                        *)
(***************************************************************************)
\* What a response carries after type and _id.
ErrFields ==
    { <<>>,
      << <<StrV("bngError"), StrV("boom")>> >>,
      << <<StrV("bngValueError"), StrV("bad")>> >>,
      << <<StrV("bngValueError"), StrV("bad")>>, <<StrV("bngError"), StrV("boom")>> >>,
      << <<StrV("bngError"), BinV("boom")>> >>,
      << <<StrV("bngValueError"), IntV(7)>> >> }

\* Encodings of `_id` in a response to request i: i as an integer and as a
\* float, i + 1/2, -i as an integer and as a float, a text, nil.
IdEncodings(i) ==
    { IntV(i), F64V(2 * i), F64V(2 * i + 1), IntV(0 - i), F64V(0 - 2 * i),
      StrV("1"), NilV }

ErrResponses(i) ==
    IF i = 0 THEN {Answer(0)}
    ELSE { Response("Pause", IntV(i), e) : e \in ErrFields }
           \cup { Response("Pause", idv, <<>>) : idv \in IdEncodings(i) }
           \cup { MapFrame(<< <<StrV("type"), StrV("Pause")>> >>),
                  NotMapFrame, GarbageFrame }

\* The peer answers one request it has not answered yet.
PeerErrAnswer ==
    \E i \in 1..Len(toPeer) :
        LET id == RequestId(toPeer[i].frame)
        IN  /\ id \notin answered
            /\ answered' = answered \cup {id}
            /\ \E f \in ErrResponses(id) : fromPeer' = Append(fromPeer, f)
            /\ peerSent' = peerSent + 1
            /\ UNCHANGED <<phase, conn, peerClosed, op, pc, rid, args, pend,
                           ret, out, hist, seen, issued, codec>>

NextErr ==
    \/ OpenHello
    \/ CallRequest(TheCaller)
    \/ \E t \in {Opener, TheCaller} : Step(t)
    \/ PeerErrAnswer

SpecErr == Init /\ [][NextErr]_vars


(***************************************************************************)
(* SpecAck: one caller issues ack and message calls one after the other,   *)
(* possibly after a send_raw whose response it has not received; the peer  *)
(* answers each request it has received once, in any order, with a response*)
(* whose type is the request's type, the acknowledgement's type or another *)
(* value, as text or as bytes, or that has no type; with or without a      *)
(* result; with a simulator error; or with bytes that are no msgpack       *)
(* value.  A write may fail and the peer may close the stream.             *)
(***************************************************************************)
\* The `type` pairs of a response: none, or one value.
TypeFields ==
    {<<>>} \cup
    { << <<StrV("type"), v>> >> :
        v \in {StrV("Pause"), StrV("Paused"), BinV("Paused"), IntV(3)} }

\* What follows `_id`: nothing, a result, or a simulator error.
ResultFields ==
    { <<>>,
      << <<StrV("result"), IntV(7)>> >>,
      << <<StrV("bngError"), StrV("boom")>> >> }

AckResponses(i) ==
    IF i = 0 THEN {Answer(0)}
    ELSE { MapFrame(ty \o << <<StrV("_id"), IntV(i)>> >> \o more) :
             ty \in TypeFields, more \in ResultFields }
           \cup {GarbageFrame}

\* The peer answers one request it has not answered yet.
PeerAckAnswer ==
    /\ ~peerClosed
    /\ \E i \in 1..Len(toPeer) :
        LET id == RequestId(toPeer[i].frame)
        IN  /\ id \notin answered
            /\ answered' = answered \cup {id}
            /\ \E f \in AckResponses(id) : fromPeer' = Append(fromPeer, f)
            /\ peerSent' = peerSent + 1
            /\ UNCHANGED <<phase, conn, peerClosed, op, pc, rid, args, pend,
                           ret, out, hist, seen, issued, codec>>

NextAck ==
    \/ OpenHello
    \/ CallSendRaw(TheCaller)
    \/ CallAck(TheCaller)
    \/ CallMessage(TheCaller)
    \/ \E t \in {Opener, TheCaller} : Step(t)
    \/ \E t \in {Opener, TheCaller} : WriteFail(t)
    \/ \E t \in {Opener, TheCaller} : ReadEof(t)
    \/ PeerAckAnswer
    \/ PeerClose

SpecAck == Init /\ [][NextAck]_vars


(***************************************************************************)
(* frame.rs.  A byte of the model has one of two values, so that the four  *)
(* header bytes express the lengths below U32Mod, which stands for 2^32.   *)
(***************************************************************************)
Byte == {0, 1}
ByteMod == Cardinality(Byte)
U32Mod == ByteMod * ByteMod * ByteMod * ByteMod

\* write_u32: the four bytes of n, most significant first.
to_be_bytes(n) ==
    << (n \div (ByteMod * ByteMod * ByteMod)) % ByteMod,
       (n \div (ByteMod * ByteMod)) % ByteMod,
       (n \div ByteMod) % ByteMod,
       n % ByteMod >>

\* Fault model: a header read least significant byte first.
from_le_bytes(h) ==
    h[4] * ByteMod * ByteMod * ByteMod + h[3] * ByteMod * ByteMod
        + h[2] * ByteMod + h[1]
\* read_u32: the number in four bytes, most significant first.
from_be_bytes(h) ==
    h[1] * ByteMod * ByteMod * ByteMod + h[2] * ByteMod * ByteMod
        + h[3] * ByteMod + h[4]

\* The bytes write_frame writes for data: `data.len() as u32`, big-endian,
\* then data.
write_frame(data) == to_be_bytes(Len(data) % U32Mod) \o data

\* Fault model: every failed read is an I/O error.
map_err_io(kind, where) == Io("read")
\* read_frame's map_err: UnexpectedEof is Disconnected, the rest is Io.
map_err(kind, where) ==
    IF kind = "eof"
    THEN Disconnected(IF where = "read_u32"
                      THEN "Connection closed while reading frame header"
                      ELSE "Connection closed while reading frame body")
    ELSE Io("read")

\* Payloads of at most MaxPayload bytes, and one of U32Mod bytes.
MaxPayload == 2
\* Calls of write_frame on one stream, the one cut short included.
MaxFrames == 2
Payloads ==
    UNION { [1..k -> Byte] : k \in 0..MaxPayload }
        \cup { [i \in 1..U32Mod |-> 0] }

\* read_frame returns r.
ReadFrameReturns(r) ==
    /\ rstate' = "idle"
    /\ results' = Append(results, r)

\* write_frame(writer, data) on a stream that is open.
WriteFrameCall ==
    /\ wireEnd = "open"
    /\ Len(written) < MaxFrames
    /\ \E data \in Payloads :
          /\ wire' = wire \o write_frame(data)
          /\ written' = Append(written, data)
    /\ UNCHANGED <<phase, conn, peer, op, pc, rid, args, pend, ret, out, hist,
                   seen, issued, wireEnd, rstate, hdr, len, buf, results>>

\* The writing side closes the stream inside a frame: after k of its bytes,
\* k = 0 (at the frame's boundary) to all but the last.
CloseInFrame ==
    /\ wireEnd = "open"
    /\ Len(written) < MaxFrames
    /\ \E data \in Payloads :
          /\ \E k \in 0..(Len(write_frame(data)) - 1) :
                wire' = wire \o SubSeq(write_frame(data), 1, k)
          /\ written' = Append(written, data)
    /\ wireEnd' = "eof"
    /\ UNCHANGED <<phase, conn, peer, op, pc, rid, args, pend, ret, out, hist,
                   seen, issued, rstate, hdr, len, buf, results>>

\* The transport fails otherwise (a reset, say).
TransportFails ==
    /\ wireEnd = "open"
    /\ wireEnd' = "error"
    /\ UNCHANGED <<phase, conn, peer, op, pc, rid, args, pend, ret, out, hist,
                   seen, issued, wire, written, rstate, hdr, len, buf, results>>

\* read_frame(reader) is called: it awaits read_u32.
ReadFrameCall ==
    /\ rstate = "idle"
    /\ Len(results) <= MaxFrames
    /\ \A i \in 1..Len(results) : results[i].st = "Ok"
    /\ rstate' = "read_u32"
    /\ hdr' = <<>> /\ len' = 0 /\ buf' = <<>>
    /\ UNCHANGED <<phase, conn, peer, op, pc, rid, args, pend, ret, out, hist,
                   seen, issued, wire, wireEnd, written, results>>

\* read_u32 takes one more byte; with the fourth, len is known and
\* read_exact begins, which returns at once when len is 0.
ReadU32 ==
    /\ rstate = "read_u32"
    /\ wire # <<>>
    /\ wire' = Tail(wire)
    /\ hdr' = Append(hdr, Head(wire))
    /\ IF Len(hdr) < 3
       THEN UNCHANGED <<rstate, len, results>>
       ELSE /\ len' = from_be_bytes(hdr')
            /\ IF len' = 0
               THEN ReadFrameReturns(OkBytes(<<>>))
               ELSE rstate' = "read_exact" /\ UNCHANGED results
    /\ UNCHANGED <<phase, conn, peer, op, pc, rid, args, pend, ret, out, hist,
                   seen, issued, wireEnd, written, buf>>

\* read_exact takes one more byte; with the last, read_frame returns buf.
ReadExact ==
    /\ rstate = "read_exact"
    /\ wire # <<>>
    /\ wire' = Tail(wire)
    /\ buf' = Append(buf, Head(wire))
    /\ IF Len(buf') < len
       THEN UNCHANGED <<rstate, results>>
       ELSE ReadFrameReturns(OkBytes(buf'))
    /\ UNCHANGED <<phase, conn, peer, op, pc, rid, args, pend, ret, out, hist,
                   seen, issued, wireEnd, written, hdr, len>>

\* read_u32 or read_exact finds no byte and the stream ended or failed.
ReadFails ==
    /\ rstate \in {"read_u32", "read_exact"}
    /\ wire = <<>>
    /\ wireEnd # "open"
    /\ ReadFrameReturns(map_err(wireEnd, rstate))
    /\ UNCHANGED <<phase, conn, peer, op, pc, rid, args, pend, ret, out, hist,
                   seen, issued, wire, wireEnd, written, hdr, len, buf>>

NextFrame ==
    \/ WriteFrameCall
    \/ CloseInFrame
    \/ TransportFails
    \/ ReadFrameCall
    \/ ReadU32
    \/ ReadExact
    \/ ReadFails

SpecFrame == Init /\ [][NextFrame]_vars


(***************************************************************************)
(* SpecFail: two callers share the connection and issue request and        *)
(* send_raw in any interleaving while everything that can fail does: a     *)
(* write is refused, the peer closes the stream, and the peer answers a    *)
(* request with a simulator error, a value that is no map, or bytes that   *)
(* are no msgpack value.                                                   *)
(***************************************************************************)
FailResponses(i) ==
    IF i = 0 THEN {Answer(0)}
    ELSE { Answer(i),
           Response("Pause", IntV(i), << <<StrV("bngError"), StrV("boom")>> >>),
           NotMapFrame, GarbageFrame }

\* The peer answers one request it has not answered yet.
PeerFailAnswer ==
    /\ ~peerClosed
    /\ \E i \in 1..Len(toPeer) :
        LET id == RequestId(toPeer[i].frame)
        IN  /\ id \notin answered
            /\ answered' = answered \cup {id}
            /\ \E f \in FailResponses(id) : fromPeer' = Append(fromPeer, f)
            /\ peerSent' = peerSent + 1
            /\ UNCHANGED <<phase, conn, peerClosed, op, pc, rid, args, pend,
                           ret, out, hist, seen, issued, codec>>

NextFail ==
    \/ OpenHello
    \/ \E t \in Callers : CallSendRaw(t)
    \/ \E t \in Callers : CallRequest(t)
    \/ \E t \in Tasks : Step(t)
    \/ \E t \in Tasks : WriteFail(t)
    \/ \E t \in Tasks : ReadEof(t)
    \/ PeerFailAnswer
    \/ PeerClose

SpecFail == Init /\ [][NextFail]_vars


(***************************************************************************)
(* SpecCancel: the callers send with send_raw and call recv for ids that   *)
(* were sent, and a caller may abandon a recv: the future is dropped at    *)
(* one of its awaits (a lock that is not granted at once, or read_frame),  *)
(* as a timeout wrapped around the call does.  The peer answers every      *)
(* request it has received exactly once, in any order.  A request whose    *)
(* recv is never called is a step without wait (ControlApi::step).         *)
(***************************************************************************)
\* The awaits of recv: the buffer's lock (twice), the reader's lock and
\* read_frame.
RecvAwaits == {"buf_lock", "reader_lock", "read_frame", "insert_lock"}

\* The caller drops the future of its recv at an await: the locals of recv
\* are dropped with it, the reader's guard and a message that was read and
\* not stored yet among them.  The id can be awaited again.
CancelRecv(t) ==
    /\ op[t] = "recv"
    /\ pc[t] \in RecvAwaits
    /\ pc' = [pc EXCEPT ![t] = "idle"]
    /\ reader' = IF reader = t THEN Dropped(reader) ELSE reader
    /\ pend' = [pend EXCEPT ![t] = NoPend]
    /\ via' = [via EXCEPT ![t] = "cancelled"]
    /\ seen' = [seen EXCEPT ![t] = <<>>]
    /\ issued' = issued \ {rid[t]}
    /\ UNCHANGED <<phase, req_id, buffered, writer, bufLock, toPeer, allocated,
                   peer, op, rid, args, ret, out, matched, codec>>

NextCancel ==
    \/ OpenHello
    \/ \E t \in Callers : CallSendRaw(t)
    \/ \E t \in Callers : CallRecvOnce(t)
    \/ \E t \in Callers : CancelRecv(t)
    \/ \E t \in Tasks : Step(t)
    \/ PeerAnswer

SpecCancel == Init /\ [][NextCancel]_vars


(***************************************************************************)
(* SpecWrite: send_raw with write_frame taken await by await.  The two     *)
(* callers issue send_raw and request concurrently; write_frame writes the *)
(* four header bytes (write_u32), then the payload (write_all), then       *)
(* flushes, and the writer's guard is held from before the first byte to   *)
(* after the flush.  `wire` holds the bytes the stream has taken, in the   *)
(* order it took them.  The peer answers every request once.               *)
(***************************************************************************)
\* The packed bytes of a request (rmpv::encode::write_value).  Of msgpack's
\* encoding the model keeps that the bytes are fixed by the request and
\* differ for requests with different ids.
write_value(frame) == to_be_bytes(RequestId(frame))

\* The request task t is sending, packed.
Packed(t) == write_value(Request(rtype[t], rid[t], FieldsOf(op[t])))

\* A part of write_frame by task t puts `bytes` on the stream and goes on
\* to `next`.
WritePart(t, bytes, next) ==
    /\ writer = t
    /\ wire' = wire \o bytes
    /\ pc' = [pc EXCEPT ![t] = next]
    /\ UNCHANGED <<phase, conn, peer, op, rid, args, pend, ret, out, hist, seen,
                   issued, wireEnd, written, rstate, hdr, len, buf, results>>

\* writer.write_u32(len).await
WriteU32(t) ==
    /\ pc[t] = "write_frame"
    /\ WritePart(t, SubSeq(write_frame(Packed(t)), 1, 4), "write_all")

\* writer.write_all(data).await
WriteAll(t) ==
    /\ pc[t] = "write_all"
    /\ WritePart(t, SubSeq(write_frame(Packed(t)), 5, Len(write_frame(Packed(t)))),
                 "flush")

\* writer.flush().await, and send_raw leaves write_frame.
Flush(t) ==
    /\ pc[t] = "flush"
    /\ writer = t
    /\ FrameWritten(t)
    /\ UNCHANGED codec

StepWrite(t) ==
    \/ WriterLock(t)
    \/ WriteU32(t)
    \/ WriteAll(t)
    \/ Flush(t)
    \/ BufLock(t)
    \/ BufCheck(t)
    \/ ReaderLock(t)
    \/ ReadFrame(t)
    \/ InsertLock(t)
    \/ BufInsert(t)

NextWrite ==
    \/ OpenHello
    \/ \E t \in Callers : CallSendRaw(t)
    \/ \E t \in Callers : CallRequest(t)
    \/ \E t \in Tasks : StepWrite(t)
    \/ PeerAnswer

SpecWrite == Init /\ [][NextWrite]_vars


(***************************************************************************)
(* SpecStore: one caller pipelines: it sends requests with send_raw and    *)
(* calls recv once for each id sent, in any order; the peer answers every  *)
(* request once, in any order, with a success or with a simulator error    *)
(* (bngError or bngValueError) whose text names the request.               *)
(***************************************************************************)
\* The error text the peer sends for request i.
ErrText(i) == <<"failed 0", "failed 1", "failed 2", "failed 3", "failed 4">>[i + 1]

StoreResponses(i) ==
    IF i = 0 THEN {Answer(0)}
    ELSE { Answer(i) } \cup
         { Response("Pause", IntV(i), << <<StrV(key), StrV(ErrText(i))>> >>) :
             key \in {"bngError", "bngValueError"} }

\* The peer answers one request it has not answered yet.
PeerStoreAnswer ==
    \E i \in 1..Len(toPeer) :
        LET id == RequestId(toPeer[i].frame)
        IN  /\ id \notin answered
            /\ answered' = answered \cup {id}
            /\ \E f \in StoreResponses(id) : fromPeer' = Append(fromPeer, f)
            /\ peerSent' = peerSent + 1
            /\ UNCHANGED <<phase, conn, peerClosed, op, pc, rid, args, pend,
                           ret, out, hist, seen, issued, codec>>

NextStore ==
    \/ OpenHello
    \/ CallSendRaw(TheCaller)
    \/ CallRecvOnce(TheCaller)
    \/ \E t \in {Opener, TheCaller} : Step(t)
    \/ PeerStoreAnswer

SpecStore == Init /\ [][NextStore]_vars


(***************************************************************************)
(* SpecLive: a single caller issues request, ack and message calls one     *)
(* after the other.  The peer sends a response for every request it has    *)
(* received, and before it any (bounded) number of well-formed frames for  *)
(* other ids: an id nobody asks for, or the id of a request not made yet.  *)
(* The runtime polls a task that can take a step, and the peer leaves no   *)
(* request unanswered.                                                     *)
(***************************************************************************)
\* Frames for foreign ids the peer sends in all.
MaxForeign == 1

\* The frames the peer has sent that answer no request.
ForeignSent == peerSent - Cardinality(answered)

\* The peer sends a well-formed frame for an id that no recv awaits now.
PeerForeign ==
    /\ ForeignSent < MaxForeign
    /\ \E k \in {FutureId, req_id} :
          /\ \A t \in Tasks : pc[t] # "idle" => rid[t] # k
          /\ fromPeer' = Append(fromPeer, Response("Paused", IntV(k), <<>>))
    /\ peerSent' = peerSent + 1
    /\ UNCHANGED <<phase, conn, peerClosed, answered, op, pc, rid, args, pend,
                   ret, out, hist, seen, issued, codec>>

NextLive ==
    \/ OpenHello
    \/ CallRequest(TheCaller)
    \/ CallAck(TheCaller)
    \/ CallMessage(TheCaller)
    \/ \E t \in {Opener, TheCaller} : Step(t)
    \/ PeerAnswer
    \/ PeerForeign

FairnessLive ==
    /\ WF_vars(PeerAnswer)
    /\ \A t \in {Opener, TheCaller} : WF_vars(Step(t))

SpecLive == Init /\ [][NextLive]_vars /\ FairnessLive


(***************************************************************************)
(* SpecSame: callers that do not keep to one recv per id.  One caller      *)
(* sends with send_raw and both call recv for any id sent, at any time and *)
(* any number of times, also both for the same id at once; the peer        *)
(* answers every request it has received exactly once, in any order.       *)
(***************************************************************************)
\* A caller calls recv for the id of a request that was sent, whether or not
\* a recv was called for it before.
CallRecvSent(t) ==
    /\ phase = "open"
    /\ \E id \in SentIds : EnterRecv(t, id)
    /\ UNCHANGED <<issued, codec>>

NextSame ==
    \/ OpenHello
    \/ CallSendRaw(TheCaller)
    \/ \E t \in Callers : CallRecvSent(t)
    \/ \E t \in Tasks : Step(t)
    \/ PeerAnswer

SpecSame == Init /\ [][NextSame]_vars


(***************************************************************************)
(* SpecSend: the two callers issue send_raw and request over a transport   *)
(* that may refuse any write; the peer answers every request that reaches  *)
(* it, once.                                                               *)
(***************************************************************************)
NextSend ==
    \/ OpenHello
    \/ \E t \in Callers : CallSendRaw(t)
    \/ \E t \in Callers : CallRequest(t)
    \/ \E t \in Tasks : Step(t)
    \/ \E t \in Tasks : WriteFail(t)
    \/ PeerAnswer

SpecSend == Init /\ [][NextSend]_vars


(***************************************************************************)
(* SpecDup: a peer that answers an id more than once.  One caller sends    *)
(* with send_raw and calls recv for any id; the peer sends well-formed     *)
(* responses for any id in use, in any order and any number of times, each *)
(* stamped in its `result` with the number of the frame, so that two       *)
(* responses for one id can be told apart.                                 *)
(***************************************************************************)
\* The n-th frame of the peer, a response for id k.
Stamped(k, n) ==
    Response(TypeFor(k), IntV(k),
             Version(PROTOCOL_VERSION) \o << <<StrV("result"), IntV(n)>> >>)

PeerSendDup ==
    /\ peerSent < MaxSeqFrames
    /\ \E k \in AwaitIds : fromPeer' = Append(fromPeer, Stamped(k, peerSent + 1))
    /\ peerSent' = peerSent + 1
    /\ UNCHANGED <<phase, conn, peerClosed, answered, op, pc, rid, args, pend,
                   ret, out, hist, seen, issued, codec>>

NextDup ==
    \/ OpenHello
    \/ CallSendRaw(TheCaller)
    \/ CallRecv(TheCaller)
    \/ \E t \in {Opener, TheCaller} : Step(t)
    \/ PeerSendDup

SpecDup == Init /\ [][NextDup]_vars


(***************************************************************************)
(* SpecAbandon: read_frame on the read half of a connection whose caller   *)
(* may abandon recv.  The peer writes whole frames (payloads shorter than  *)
(* U32Mod); read_frame takes the bytes as they arrive, one at a time; the  *)
(* caller may drop the future of recv, and with it that of read_frame, at  *)
(* the await of read_u32 or of read_exact, between any two bytes.  The     *)
(* bytes a dropped read has taken are gone from the stream, and the next   *)
(* read_frame starts where the stream is.                                  *)
(***************************************************************************)
\* The peer writes the frame of a payload whose length fits the prefix.
PeerWritesFrame ==
    /\ wireEnd = "open"
    /\ Len(written) < MaxFrames
    /\ \E data \in { d \in Payloads : Len(d) < U32Mod } :
          /\ wire' = wire \o write_frame(data)
          /\ written' = Append(written, data)
    /\ UNCHANGED <<phase, conn, peer, op, pc, rid, args, pend, ret, out, hist,
                   seen, issued, wireEnd, rstate, hdr, len, buf, results>>

\* The future of read_frame is dropped at one of its awaits: the header
\* bytes read_u32 has taken and the buffer read_exact was filling are
\* dropped with it.
CancelRead ==
    /\ rstate \in {"read_u32", "read_exact"}
    /\ rstate' = "idle"
    /\ hdr' = <<>> /\ len' = 0 /\ buf' = <<>>
    /\ UNCHANGED <<phase, conn, peer, op, pc, rid, args, pend, ret, out, hist,
                   seen, issued, wire, wireEnd, written, results>>

NextAbandon ==
    \/ PeerWritesFrame
    \/ ReadFrameCall
    \/ ReadU32
    \/ ReadExact
    \/ CancelRead

SpecAbandon == Init /\ [][NextAbandon]_vars


(***************************************************************************)
(* SpecBad: one caller pipelines requests and calls recv for ids it has    *)
(* sent, again after a failure; the peer answers every request once, in    *)
(* any order, and sends among the answers frames recv cannot accept: bytes *)
(* that are no msgpack value, a value that is no map, a map without `_id`, *)
(* a map whose `_id` is no number.                                         *)
(***************************************************************************)
\* Unacceptable frames the peer sends in all.
MaxBad == 1

BadFrames ==
    { GarbageFrame, NotMapFrame,
      MapFrame(<< <<StrV("type"), StrV("Paused")>> >>),
      Response("Paused", NilV, <<>>) }

\* The frames the peer has sent that answer no request.
BadSent == peerSent - Cardinality(answered)

PeerBad ==
    /\ BadSent < MaxBad
    /\ \E f \in BadFrames : fromPeer' = Append(fromPeer, f)
    /\ peerSent' = peerSent + 1
    /\ UNCHANGED <<phase, conn, peerClosed, answered, op, pc, rid, args, pend,
                   ret, out, hist, seen, issued, codec>>

NextBad ==
    \/ OpenHello
    \/ CallSendRaw(TheCaller)
    \/ CallRecvSent(TheCaller)
    \/ \E t \in {Opener, TheCaller} : Step(t)
    \/ PeerAnswer
    \/ PeerBad

SpecBad == Init /\ [][NextBad]_vars


(***************************************************************************)
(*                            Properties                                   *)
(***************************************************************************)
\* The message in the i-th frame on the wire to the peer, and its id.
WireDict(i) == Unwrap(value_to_str_dict(toPeer[i].frame))
WireId(i) == Unwrap(msg_id_of(WireDict(i)))
\* Task t is in, or has finished, an operation that began with send_raw.
HasSent(t) == op[t] \in {"hello", "send_raw", "request", "ack", "message"}
\* Task t's operation has returned.
Returned(t) == op[t] # "none" /\ pc[t] = "idle"
\* The send_raw of task t's operation has written its frame.
HasWritten(t) ==
    /\ HasSent(t)
    /\ pc[t] \notin {"writer_lock", "write_frame"}
    /\ out[t] # Io("write")

\* C1: whenever recv (by itself, or inside request, hence inside hello) has
\* returned a message as success, the message's `_id`, coerced to u64, is
\* the id the recv was called for; from the stream and from the buffer.
C1_RecvReturnsAwaitedId ==
    \A t \in Tasks :
        (Returned(t) /\ ret[t].st = "Ok") =>
            /\ "_id" \in DOMAIN ret[t].dict
            /\ value_as_u64(ret[t].dict["_id"]) = Some(rid[t])

\* A caller's recv has returned, as success, a message that another task
\* had read and put in the buffer.
C1_Witness ==
    \E t \in Callers :
        /\ Returned(t) /\ op[t] = "recv"
        /\ ret[t].st = "Ok" /\ via[t] = "buffer"

\* C4: the k-th next_id of the connection returns k-1 (so the identities are
\* unique and count up by 1 in the order they are allocated, the handshake
\* holding 0), also with send_raw calls interleaved; no two frames on the
\* wire carry the same `_id`; the frame a send_raw wrote carries the id the
\* call was given, which is the id it returns, and its req_type.
C4_IdsCountUpFromZero ==
    /\ \A k \in 1..Len(allocated) : allocated[k] = k - 1
    /\ (op[Opener] # "none" => rid[Opener] = 0)
    /\ \A t, u \in Tasks : (t # u /\ HasSent(t) /\ HasSent(u)) => rid[t] # rid[u]
    /\ \A i, j \in 1..Len(toPeer) : i # j => WireId(i) # WireId(j)
    /\ \A t \in Tasks :
          HasWritten(t) =>
              \E i \in 1..Len(toPeer) :
                  /\ toPeer[i].by = t
                  /\ \A j \in (i+1)..Len(toPeer) : toPeer[j].by # t
                  /\ WireId(i) = rid[t]
                  /\ Get(WireDict(i), "type") = Some(StrV(rtype[t]))
    /\ \A t \in Tasks :
          (Returned(t) /\ op[t] = "send_raw" /\ out[t].st = "Ok") =>
              HasWritten(t) /\ out[t].id = rid[t]

\* Two send_raw calls that ran interleaved (the later id was written first)
\* have both returned, with the ids 1 and 2.
C4_Witness ==
    /\ Len(toPeer) = 3
    /\ WireId(2) = 2 /\ WireId(3) = 1
    /\ \A t \in Callers : Returned(t) /\ op[t] = "send_raw" /\ out[t].st = "Ok"
    /\ {out[t].id : t \in Callers} = {1, 2}

\* C8: at most one task is inside read_frame on the read half and at most
\* one inside write_frame on the write half, and each is the holder of that
\* half's mutex; the writer's mutex is held by nobody else, so a task that
\* waits for a frame keeps no send_raw from writing.
C8_OneReaderOneWriter ==
    /\ Cardinality({t \in Tasks : pc[t] = "read_frame"}) <= 1
    /\ Cardinality({t \in Tasks : pc[t] = "write_frame"}) <= 1
    /\ \A t \in Tasks : pc[t] = "read_frame" <=> reader = t
    /\ \A t \in Tasks : pc[t] = "write_frame" <=> writer = t

\* One task waits for a frame inside read_frame while another is writing.
C8_Witness ==
    \E t, u \in Tasks :
        /\ t # u
        /\ pc[t] = "read_frame" /\ fromPeer = <<>>
        /\ pc[u] = "write_frame"

\* C9 as claimed: the frames are on the wire in increasing `_id` order, that
\* is, of two send_raw calls the one whose frame is written first has the
\* smaller identity.
C9_WireOrderIsIdOrder ==
    \A i, j \in 1..Len(toPeer) : i < j => WireId(i) < WireId(j)

\* C10: a step changes the pending buffer in two ways only.  An entry is put
\* (or replaced) by a recv at its insert, under the id of the message it has
\* read, which is not the id it awaits; an entry is taken out by a recv
\* called for exactly its id, at its check of the buffer, and that recv
\* returns with the entry's payload.  A recv that returns a payload from the
\* buffer leaves no entry for its id behind.
C10_BufferStep ==
    /\ \A k \in DOMAIN buffered' :
          (k \notin DOMAIN buffered \/ buffered'[k] # buffered[k]) =>
              \E t \in Tasks :
                  /\ pc[t] = "insert" /\ pc'[t] = "reader_lock"
                  /\ op[t] \in {"recv", "hello", "request", "ack", "message"}
                  /\ pend[t].id = k /\ k # rid[t]
                  /\ buffered'[k] = pend[t].stored
    /\ \A k \in DOMAIN buffered \ DOMAIN buffered' :
          \E t \in Tasks :
              /\ pc[t] = "buf_check" /\ pc'[t] = "idle"
              /\ rid[t] = k
              /\ ret'[t] = buffered[k]
    /\ \A t \in Tasks :
          (pc[t] = "buf_check" /\ pc'[t] = "idle") =>
              /\ rid[t] \in DOMAIN buffered
              /\ DOMAIN buffered' = DOMAIN buffered \ {rid[t]}
              /\ ret'[t] = buffered[rid[t]]
    /\ \A t \in Tasks :
          pc[t] \in {"insert_lock", "insert"} => pend[t].id # rid[t]

C10_BufferChangesOnlyInRecv == [][C10_BufferStep]_vars

\* An entry has been put in the buffer by one recv and taken out, once, by
\* the recv called for its id.
C10_Witness ==
    \E t \in Callers :
        /\ Returned(t) /\ op[t] = "recv" /\ via[t] = "buffer"
        /\ rid[t] \notin DOMAIN buffered


\* The last entry of a recv's deposits that went under id k.
RECURSIVE LastUnder(_, _)
LastUnder(deposits, k) ==
    IF deposits[Len(deposits)].id = k THEN deposits[Len(deposits)]
    ELSE LastUnder(SubSeq(deposits, 1, Len(deposits) - 1), k)

\* Task t's recv returns in this step with the message at the head of the
\* stream, which carries the awaited id, as its payload.
ReturnsHead(t) ==
    /\ pc[t] = "read_frame" /\ pc'[t] = "idle"
    /\ via'[t] \in {"stream", "reordered"}
    /\ LET dict == Unwrap(value_to_str_dict(Head(fromPeer)))
       IN  /\ value_as_u64(dict["_id"]) = Some(rid[t])
           /\ ret'[t] = IF DOMAIN dict \cap {"bngError", "bngValueError"} = {}
                        THEN OkDict(dict)
                        ELSE Unwrap(check_sim_error(dict))

\* C2 as claimed: when the recv of a lone caller returns, it returns the
\* payload of the frame for N, and every foreign frame it read before is in
\* the buffer under its id.
C2_EveryForeignFrameKept_Step ==
    \A t \in Tasks :
        (pc[t] = "read_frame" /\ pc'[t] = "idle" /\ via'[t] # "") =>
            /\ ReturnsHead(t)
            /\ \A i \in 1..Len(seen[t]) :
                  /\ seen[t][i].id # rid[t]
                  /\ seen[t][i].id \in DOMAIN buffered'
                  /\ buffered'[seen[t][i].id] = seen[t][i].stored

C2_EveryForeignFrameKept == [][C2_EveryForeignFrameKept_Step]_vars

\* C2, amended: when the recv of a lone caller returns, it returns the
\* payload of the frame for N, and every id of a foreign frame it read
\* before has an entry in the buffer, which holds the payload of the last of
\* these frames with that id.
C2_LastForeignFrameKept_Step ==
    \A t \in Tasks :
        (pc[t] = "read_frame" /\ pc'[t] = "idle" /\ via'[t] # "") =>
            /\ ReturnsHead(t)
            /\ \A i \in 1..Len(seen[t]) :
                  /\ seen[t][i].id # rid[t]
                  /\ seen[t][i].id \in DOMAIN buffered'
                  /\ buffered'[seen[t][i].id] = LastUnder(seen[t], seen[t][i].id).stored

C2_LastForeignFrameKept == [][C2_LastForeignFrameKept_Step]_vars

\* The end of test_request_response_correlation: the caller's request has
\* returned the response for its id, which came after a response for
\* FutureId, and the buffer holds an entry for FutureId.
C2_Witness ==
    /\ Returned(TheCaller) /\ op[TheCaller] = "request"
    /\ via[TheCaller] = "reordered"
    /\ ret[TheCaller].st = "Ok"
    /\ value_as_u64(ret[TheCaller].dict["_id"]) = Some(rid[TheCaller])
    /\ FutureId \in DOMAIN buffered

\* The response recv matched for the handshake, once hello has returned;
\* the version and the type it carries as text ("" when it carries none).
HelloAnswered == Returned(Opener) /\ IsSome(matched[Opener])
HelloDict == Unwrap(matched[Opener])
Theirs == IF "protocolVersion" \in DOMAIN HelloDict
          THEN HelloDict["protocolVersion"].s ELSE ""
Got == IF "type" \in DOMAIN HelloDict THEN HelloDict["type"].s ELSE ""
CarriesError == DOMAIN HelloDict \cap {"bngError", "bngValueError"} # {}
\* No connection value exists: no caller has begun an operation and the
\* stream carries the handshake's request only.
NoConnection ==
    /\ phase = "failed"
    /\ \A t \in Callers : op[t] = "none"
    /\ Len(toPeer) = 1 /\ req_id = 1

\* C5: the handshake takes identity 0 and puts it on the wire with type
\* Hello and the client's version; when the peer's response is the echo of
\* that version under type "Hello", hello returns Ok and open returns the
\* connection; right after open the counter is 1, the second identity
\* allocated is 1 and the caller's first send_raw returns 1.
C5_EchoOpensWithIdsZeroOne ==
    /\ \A k \in 1..Len(allocated) : k <= 2 => allocated[k] = k - 1
    /\ op[Opener] # "none" => rid[Opener] = 0 /\ op[Opener] = "hello"
    /\ Len(toPeer) >= 1 =>
          /\ toPeer[1].by = Opener
          /\ WireDict(1) = [type |-> StrV("Hello"), _id |-> IntV(0),
                            protocolVersion |-> StrV(PROTOCOL_VERSION)]
    /\ (HelloAnswered /\ HelloDict = Unwrap(value_to_str_dict(Answer(0)))) =>
          out[Opener] = OkUnit /\ phase = "open"
    /\ phase = "open" => Returned(Opener) /\ out[Opener] = OkUnit
    /\ (phase = "open" /\ \A t \in Callers : op[t] = "none") => req_id = 1
    /\ \A t \in Callers :
          (Returned(t) /\ op[t] = "send_raw" /\ Len(allocated) = 2) =>
              out[t] = OkId(1)

\* open has succeeded on the echo and the caller's first send_raw has
\* returned 1.
C5_Witness ==
    /\ phase = "open"
    /\ HelloAnswered /\ Theirs = PROTOCOL_VERSION /\ Got = "Hello"
    /\ Returned(TheCaller) /\ op[TheCaller] = "send_raw"
    /\ Len(allocated) = 2 /\ out[TheCaller] = OkId(1)

\* C6 as claimed: a Hello response whose protocolVersion differs from the
\* client's, or that carries none, makes open fail with ProtocolMismatch
\* holding both version strings, and no connection is returned.
C6_OtherVersionIsMismatch ==
    (HelloAnswered /\ Theirs # PROTOCOL_VERSION) =>
        /\ out[Opener] = ProtocolMismatch(PROTOCOL_VERSION, Theirs)
        /\ NoConnection

\* C6, amended: such a response makes open fail and no connection is
\* returned; the failure is ProtocolMismatch with both version strings when
\* the response carries no simulator-error key, and the simulator's error
\* (bngError before bngValueError) when it carries one.
C6_OtherVersionFailsOpen ==
    (HelloAnswered /\ Theirs # PROTOCOL_VERSION) =>
        /\ ~CarriesError =>
              out[Opener] = ProtocolMismatch(PROTOCOL_VERSION, Theirs)
        /\ "bngError" \in DOMAIN HelloDict =>
              out[Opener] = SimulatorError(HelloDict["bngError"].s)
        /\ (CarriesError /\ "bngError" \notin DOMAIN HelloDict) =>
              out[Opener] = ValueError(HelloDict["bngValueError"].s)
        /\ NoConnection

\* open has failed with ProtocolMismatch on a response of type Hello with
\* another version.
C6_Witness ==
    /\ HelloAnswered /\ Theirs = OtherVersion /\ Got = "Hello"
    /\ out[Opener] = ProtocolMismatch(PROTOCOL_VERSION, OtherVersion)
    /\ phase = "failed"

\* C7 as claimed: a Hello response with the client's protocolVersion and a
\* type other than "Hello", or no type, makes open fail with
\* UnexpectedResponseType (expected "Hello", got the type received), and no
\* connection is returned.
C7_OtherTypeIsUnexpected ==
    (HelloAnswered /\ Theirs = PROTOCOL_VERSION /\ Got # "Hello") =>
        /\ out[Opener] = UnexpectedResponseType("Hello", Got)
        /\ NoConnection

\* C7, amended: such a response makes open fail and no connection is
\* returned; the failure is UnexpectedResponseType (expected "Hello", got
\* the type received, "" for none) when the response carries no
\* simulator-error key, and the simulator's error when it carries one.
C7_OtherTypeFailsOpen ==
    (HelloAnswered /\ Theirs = PROTOCOL_VERSION /\ Got # "Hello") =>
        /\ ~CarriesError => out[Opener] = UnexpectedResponseType("Hello", Got)
        /\ CarriesError => out[Opener].kind \in {"SimulatorError", "ValueError"}
        /\ NoConnection

\* open has failed with UnexpectedResponseType on a response of type Paused
\* with the client's version.
C7_Witness ==
    /\ HelloAnswered /\ Theirs = PROTOCOL_VERSION /\ Got = "Paused"
    /\ out[Opener] = UnexpectedResponseType("Hello", "Paused")
    /\ phase = "failed"

\* C3 as claimed: with each id awaited by one caller and each request
\* answered once, a caller that is inside request (hence inside recv for
\* its id) eventually has its recv return its own response, whoever read
\* the response from the stream.
C3_EveryRecvReturns ==
    \A t \in Callers :
        (op[t] = "request" /\ pc[t] # "idle")
            ~> (pc[t] = "idle" /\ ret[t].st = "Ok"
                /\ value_as_u64(ret[t].dict["_id"]) = Some(rid[t]))

\* The recv called for id k has returned.
RecvDone(k) ==
    /\ k \in issued
    /\ \A t \in Callers : ~(op[t] = "recv" /\ rid[t] = k /\ pc[t] # "idle")

Reads(t) == pc[t] = "read_frame" /\ pc'[t] # "read_frame"
FrameRead == Head(fromPeer)
DictRead == Unwrap(value_to_str_dict(FrameRead))
\* The step reads a response for the id task t awaits.
ReadsAwaited(t) ==
    /\ Reads(t) /\ FrameRead.enc = "map"
    /\ "_id" \in DOMAIN DictRead
    /\ value_as_u64(DictRead["_id"]) = Some(rid[t])
\* The text an error key carries when its value is native text.
NativeText(val, default) == IF val.k = "str" THEN val.s ELSE default

\* C12 as claimed: a response for the awaited id that contains bngError
\* fails recv/request with SimulatorError carrying the key's text, one that
\* contains bngValueError fails it with ValueError carrying its text, one
\* with neither is returned as success.
C12_EachKeyItsKind_Step ==
    \A t \in Tasks :
        ReadsAwaited(t) =>
            /\ "bngError" \in DOMAIN DictRead =>
                  /\ ret'[t].kind = "SimulatorError"
                  /\ DictRead["bngError"].k = "str" =>
                        ret'[t].a = DictRead["bngError"].s
            /\ "bngValueError" \in DOMAIN DictRead =>
                  /\ ret'[t].kind = "ValueError"
                  /\ DictRead["bngValueError"].k = "str" =>
                        ret'[t].a = DictRead["bngValueError"].s
            /\ DOMAIN DictRead \cap {"bngError", "bngValueError"} = {} =>
                  ret'[t] = OkDict(DictRead)

C12_ErrorKeyFailsRecv_Step ==
    \A t \in Tasks :
        ReadsAwaited(t) =>
            /\ pc'[t] = "idle"
            /\ "bngError" \in DOMAIN DictRead =>
                  ret'[t] = SimulatorError(
                               NativeText(DictRead["bngError"], "unknown error"))
            /\ ("bngValueError" \in DOMAIN DictRead
                    /\ "bngError" \notin DOMAIN DictRead) =>
                  ret'[t] = ValueError(
                               NativeText(DictRead["bngValueError"],
                                          "unknown value error"))
            /\ DOMAIN DictRead \cap {"bngError", "bngValueError"} = {} =>
                  ret'[t] = OkDict(DictRead)
            /\ op[t] = "request" => out'[t] = ret'[t]

C15_NoIdIsMissingId_Step ==
    \A t \in Tasks :
        (/\ Reads(t) /\ FrameRead.enc = "map"
         /\ \/ "_id" \notin DOMAIN DictRead
            \/ DictRead["_id"].k \notin {"int", "f64"}) =>
            /\ pc'[t] = "idle"
            /\ ret'[t] = MissingId
            /\ op[t] = "request" => out'[t] = MissingId
            /\ matched'[t] = None
            /\ buffered' = buffered

C15_NoIdIsMissingId == [][C15_NoIdIsMissingId_Step]_vars

\* A request has failed with MissingId and the buffer is empty.
C15_Witness ==
    /\ Returned(TheCaller) /\ op[TheCaller] = "request"
    /\ out[TheCaller] = MissingId
    /\ rid[TheCaller] \in answered
    /\ DOMAIN buffered = {}

\* C16 as claimed: a frame whose payload is no msgpack value makes recv
\* fail with the decode-failure kind, which is neither the I/O kind nor the
\* missing-identity kind.
C16_GarbageIsDecodeFailure_Step ==
    \A t \in Tasks :
        (Reads(t) /\ FrameRead.enc = "garbage") =>
            /\ ret'[t].st = "Err"
            /\ ret'[t].kind = "MsgpackDecode"
            /\ ret'[t].kind \notin {"Io", "MissingId"}

C16_GarbageIsDecodeFailure == [][C16_GarbageIsDecodeFailure_Step]_vars

\* The number a numeric `_id` stands for is n.
NumEq(val, n) ==
    \/ val.k = "int" /\ val.n = n
    \/ val.k = "f64" /\ val.n = 2 * n

\* C19 as claimed: a response whose `_id` is a number is matched to the
\* recv that reads it exactly when the number equals the awaited id, be it
\* encoded as an integer or as a float.
C19_MatchedIffEqual_Step ==
    \A t \in Tasks :
        (/\ Reads(t) /\ FrameRead.enc = "map"
         /\ "_id" \in DOMAIN DictRead
         /\ DictRead["_id"].k \in {"int", "f64"}) =>
            ((pc'[t] = "idle" /\ matched'[t] = Some(DictRead))
                <=> NumEq(DictRead["_id"], rid[t]))

C19_MatchedIffEqual == [][C19_MatchedIffEqual_Step]_vars

\* The type a response carries, as text: "" when it has none or when its
\* type is neither text nor bytes.
TypeText(dict) ==
    IF "type" \in DOMAIN dict /\ dict["type"].k \in {"str", "bin"}
    THEN dict["type"].s ELSE ""

\* C17: ack returns Ok exactly when its request returned a response whose
\* type is ack_type; a response with another type, or none, fails it with
\* UnexpectedResponseType(expected = ack_type, got = the type received);
\* when the request failed (write or read failure, disconnection, simulator
\* error) ack returns the request's error as it is.
C17_AckChecksType ==
    \A t \in Callers :
        (Returned(t) /\ op[t] = "ack") =>
            /\ out[t].st = "Ok" <=>
                  (ret[t].st = "Ok" /\ TypeText(ret[t].dict) = atype[t])
            /\ out[t].st = "Ok" => out[t] = OkUnit
            /\ (ret[t].st = "Ok" /\ TypeText(ret[t].dict) # atype[t]) =>
                  out[t] = UnexpectedResponseType(atype[t], TypeText(ret[t].dict))
            /\ ret[t].st = "Err" => out[t] = ret[t]
            /\ ret[t].st = "None" => out[t] = Io("write")

\* An ack has failed on a response that carries the request's type.
C17_Witness ==
    /\ Returned(TheCaller) /\ op[TheCaller] = "ack"
    /\ ret[TheCaller].st = "Ok"
    /\ out[TheCaller] = UnexpectedResponseType("Paused", "Pause")

\* C18: message returns the response's result (Some) when the response's
\* type is req_type and it has a result key, None when the type is req_type
\* and there is no result key, and fails with
\* UnexpectedResponseType(expected = req_type, got = the type received)
\* when the type is another or there is none.
C18_MessageReturnsResult ==
    \A t \in Callers :
        (Returned(t) /\ op[t] = "message" /\ ret[t].st = "Ok") =>
            IF TypeText(ret[t].dict) = rtype[t]
            THEN IF "result" \in DOMAIN ret[t].dict
                 THEN out[t] = OkVal(Some(ret[t].dict["result"]))
                 ELSE out[t] = OkVal(None)
            ELSE out[t] = UnexpectedResponseType(rtype[t], TypeText(ret[t].dict))

\* A message call has returned the result of its response.
C18_Witness ==
    /\ Returned(TheCaller) /\ op[TheCaller] = "message"
    /\ TypeText(ret[TheCaller].dict) = "Pause"
    /\ out[TheCaller] = OkVal(Some(IntV(7)))

\* C20: the buffer's lock is held only by a task that is at the lookup at
\* the top of recv or at the insert, each of which is one step without an
\* await: the holder never waits for the reader or the writer, reads no
\* frame and writes none.
C20_BufferLockNeverHeldWaiting ==
    \A t \in Tasks :
        /\ bufLock = t <=> pc[t] \in {"buf_check", "insert"}
        /\ bufLock = t =>
              /\ pc[t] \notin {"reader_lock", "read_frame",
                               "writer_lock", "write_frame"}
              /\ reader # t /\ writer # t

\* A task holds the buffer's lock for its insert while another task has
\* taken the reader and waits for a frame.
C20_Witness ==
    \E t, u \in Tasks :
        /\ bufLock = t /\ pc[t] = "insert"
        /\ reader = u /\ pc[u] = "read_frame" /\ fromPeer = <<>>

\* The frames written whole: all, but the last when the stream was closed
\* inside it.
Whole == IF wireEnd = "eof" THEN Len(written) - 1 ELSE Len(written)
\* The reads so far have returned the payloads written, in order.
ReadBack ==
    /\ \A k \in 1..Len(results) :
          results[k].st = "Ok" =>
              k <= Whole /\ results[k] = OkBytes(written[k])
    /\ (wire = <<>> /\ rstate = "idle" /\ wireEnd = "open") =>
          Len(results) = Len(written)
\* write_frame lays data out as its length in four bytes, most significant
\* first, and then data.
LaidOut(data) ==
    LET frame == write_frame(data)
    IN  /\ Len(frame) = 4 + Len(data)
        /\ from_be_bytes(SubSeq(frame, 1, 4)) = Len(data)
        /\ SubSeq(frame, 5, Len(frame)) = data

\* C13 as claimed: for every payload, write_frame emits the payload's
\* length in four big-endian bytes followed by the payload, and the frames
\* written back to back are read back as the same payloads in their order.
C13_RoundTripEveryPayload ==
    /\ \A data \in Payloads : LaidOut(data)
    /\ ReadBack

\* C13, amended: the same for every payload shorter than 2^32 bytes.
C13_RoundTripBelowU32 ==
    /\ \A data \in Payloads : Len(data) < U32Mod => LaidOut(data)
    /\ (\A i \in 1..Len(written) : Len(written[i]) < U32Mod) => ReadBack

\* Two frames written back to back, the first with the empty payload, have
\* been read back.
C13_Witness ==
    /\ Len(written) = 2 /\ wireEnd = "open"
    /\ written[1] = <<>> /\ Len(written[2]) = 2
    /\ results = <<OkBytes(written[1]), OkBytes(written[2])>>

\* C14: a read_frame that fails is the last one; when the stream was closed
\* inside a frame (of less than 2^32 bytes) it fails with Disconnected,
\* naming the header when fewer than 4 header bytes had come and the body
\* otherwise, and never returns the frame cut short; when the transport
\* failed otherwise it fails with Io.
C14_EofIsDisconnected ==
    /\ \A k \in 1..Len(results) :
          results[k].st = "Err" =>
              /\ k = Len(results) /\ wireEnd # "open" /\ wire = <<>>
              /\ wireEnd = "eof" =>
                    /\ results[k].kind = "Disconnected"
                    /\ results[k].a =
                          IF Len(hdr) < 4
                          THEN "Connection closed while reading frame header"
                          ELSE "Connection closed while reading frame body"
                    /\ Len(hdr) = 4 => Len(buf) < len
              /\ wireEnd = "error" => results[k].kind = "Io"
    /\ (wireEnd = "eof" /\ \A i \in 1..Len(written) : Len(written[i]) < U32Mod) =>
          \A k \in 1..Len(results) : results[k].st = "Ok" => k < Len(written)

\* read_frame has failed with Disconnected after the header and one of two
\* payload bytes.
C14_Witness ==
    /\ wireEnd = "eof" /\ results # <<>>
    /\ results[Len(results)].kind = "Disconnected"
    /\ Len(hdr) = 4 /\ len = 2 /\ Len(buf) = 1

(***************************************************************************)
(* C21                                                                     *)
(***************************************************************************)
\* The locks task t holds.
Held(t) ==
    (IF reader = t THEN {"reader"} ELSE {})
        \cup (IF writer = t THEN {"writer"} ELSE {})
        \cup (IF bufLock = t THEN {"buffered"} ELSE {})
\* Task t's operation has returned failure `kind`.
Failed(t, kind) == Returned(t) /\ out[t].st = "Err" /\ out[t].kind = kind

\* C21: an operation that has returned, with success or with any failure
\* (a refused write, a closed stream, a decode failure, a missing identity, a
\* simulator error), holds none of the three locks: each lock is held only
\* by a task that is at the statement the lock protects, so that a failed
\* operation leaves no lock behind for a later one to wait for.
C21_NoLockAfterReturn ==
    \A t \in Tasks :
        /\ pc[t] = "idle" => Held(t) = {}
        /\ reader = t => pc[t] = "read_frame"
        /\ writer = t => pc[t] = "write_frame"
        /\ bufLock = t => pc[t] \in {"buf_check", "insert"}

\* One caller's write was refused and its operation has returned; the peer
\* has closed the stream; the other caller holds the writer.
C21_Witness ==
    \E t, u \in Callers :
        /\ t # u
        /\ Failed(t, "Io") /\ out[t] = Io("write")
        /\ writer = u /\ pc[u] = "write_frame"
        /\ peerClosed

(***************************************************************************)
(* C22                                                                     *)
(***************************************************************************)
\* The response for id k is in the stream, not read yet.
InStream(k) ==
    \E i \in 1..Len(fromPeer) :
        /\ fromPeer[i].enc = "map"
        /\ msg_id_of(Unwrap(value_to_str_dict(fromPeer[i]))) = Some(k)
\* A recv has read the response for id k and is about to store it.
InHand(k) ==
    \E t \in Tasks : pc[t] \in {"insert_lock", "insert"} /\ pend[t].id = k
\* Id k was sent and no recv for it is running or has returned: recv was
\* never called for it, or was abandoned.
Abandoned(k) == k \in SentIds /\ k \notin issued
\* The peer's response for id k has been read from the stream by a recv for
\* another id, which is past its insert (or is no more).
ReadByOther(k) == k \in answered /\ ~InStream(k) /\ ~InHand(k)

\* C22 as claimed: when a request was sent and no recv for its id is running
\* or has returned (none was called, or it was abandoned), then once a recv
\* for another id has read its response, the response is in the buffer, and
\* it stays there.
C22_ReadResponseStaysBuffered ==
    \A k \in AwaitIds : (Abandoned(k) /\ ReadByOther(k)) => k \in DOMAIN buffered

(***************************************************************************)
(* C23                                                                     *)
(***************************************************************************)
\* The length the four header bytes of write_frame(data) express.
Prefix(data) == from_be_bytes(SubSeq(write_frame(data), 1, 4))
\* The number of bytes write_frame(data) writes after the header.
PayloadBytes(data) == Len(write_frame(data)) - 4

\* C23 as claimed: for every call of write_frame, whatever the length of the
\* payload, the prefix written equals the number of payload bytes written
\* after it (no payload follows a prefix holding its length modulo 2^32).
C23_PrefixIsPayloadLength ==
    \A i \in 1..Len(written) : Prefix(written[i]) = PayloadBytes(written[i])

(***************************************************************************)
(* C24                                                                     *)
(***************************************************************************)
\* A value with a text sent as a byte string re-encoded as native text.
Native(val) == IF val.k = "bin" THEN StrV(val.s) ELSE val
\* The response a peer sends when it encodes every text natively.
NativeFrame(frame) ==
    MapFrame([i \in DOMAIN frame.pairs |->
                <<Native(frame.pairs[i][1]), Native(frame.pairs[i][2])>>])
\* The same success, or the same failure kind with the same carried text.
SameOutcome(r1, r2) ==
    /\ r1.st = r2.st /\ r1.kind = r2.kind
    /\ r1.a = r2.a /\ r1.b = r2.b

\* C24 as claimed: a response for the awaited id in which texts (keys,
\* type, protocolVersion, the values of bngError and bngValueError) are
\* encoded as byte strings has the outcome of the same response with the
\* texts encoded natively: the same success, or the same failure kind and
\* carried text, for recv and for the operation built on it.
C24_BytesAsText_Step ==
    \A t \in Tasks :
        (fromPeer # <<>> /\ ReadsAwaited(t)) =>
            LET r == Payload(Unwrap(value_to_str_dict(NativeFrame(FrameRead))))
            IN  /\ SameOutcome(ret'[t], r)
                /\ SameOutcome(out'[t], Finish(op[t], rtype[t], atype[t], r))

C24_BytesAsText == [][C24_BytesAsText_Step]_vars

(***************************************************************************)
(* C25                                                                     *)
(***************************************************************************)
\* The frames of the requests in reqs, one after the other.
RECURSIVE Frames(_)
Frames(reqs) ==
    IF reqs = <<>> THEN <<>>
    ELSE write_frame(write_value(Head(reqs).frame)) \o Frames(Tail(reqs))
\* The bytes of the frame that the holder of the writer has written so far.
InProgress ==
    IF writer \in Tasks /\ pc[writer] = "write_all"
    THEN SubSeq(write_frame(Packed(writer)), 1, 4)
    ELSE IF writer \in Tasks /\ pc[writer] = "flush"
    THEN write_frame(Packed(writer))
    ELSE <<>>

\* C25: frames written by concurrent send_raw calls do not interleave: the
\* bytes on the stream are the whole frames of the requests written so far,
\* each header followed at once by all payload bytes of the same request,
\* and after them only the bytes written so far of the one frame whose
\* writer holds the write half.
C25_FramesDoNotInterleave == wire = Frames(toPeer) \o InProgress

\* One caller has written the header of its frame and not the payload yet,
\* while the other caller, inside send_raw too, waits for the writer.
C25_Witness ==
    \E t, u \in Callers :
        /\ t # u
        /\ op[t] = "send_raw" /\ pc[t] = "write_all"
        /\ HasSent(u) /\ pc[u] = "writer_lock"
        /\ Len(wire) = 4 + Len(Frames(toPeer))

(***************************************************************************)
(* C26                                                                     *)
(***************************************************************************)
\* Task t takes a step of send_raw (entering it included).
SendRawStep(t) == op'[t] = "send_raw" /\ pc'[t] # pc[t]

\* C26: a step of send_raw reads nothing from the stream, leaves the pending
\* buffer as it is and touches neither the read half nor the buffer's lock;
\* send_raw only waits for the writer and writes, and the step that
\* writes its frame returns its id.  Neither step waits for the peer or for
\* the read half: the write can be taken whenever send_raw holds the writer,
\* the writer whenever it is free.
C26_SendRawStep ==
    \A t \in Callers :
        SendRawStep(t) =>
            /\ fromPeer' = fromPeer /\ peerSent' = peerSent
            /\ buffered' = buffered
            /\ reader' = reader /\ bufLock' = bufLock
            /\ pc'[t] \in {"writer_lock", "write_frame", "idle"}
            /\ pc[t] = "write_frame" =>
                  /\ pc'[t] = "idle" /\ out'[t] = OkId(rid[t])
                  /\ Len(toPeer') = Len(toPeer) + 1
                  /\ WireId(Len(toPeer))' = rid[t]

C26_SendRawCanGoOn ==
    \A t \in Callers :
        op[t] = "send_raw" =>
            /\ pc[t] \in {"writer_lock", "write_frame", "idle"}
            /\ pc[t] = "write_frame" => ENABLED WriteFrame(t)
            /\ (pc[t] = "writer_lock" /\ writer = Free) => ENABLED WriterLock(t)

C26_SendRawOnlyWrites == [][C26_SendRawStep]_vars /\ []C26_SendRawCanGoOn

\* send_raw has returned its id while the other caller holds the read half
\* inside recv, the stream is empty and the peer has answered the handshake
\* only.
C26_Witness ==
    \E t, u \in Callers :
        /\ op[t] = "send_raw" /\ Returned(t) /\ out[t] = OkId(rid[t])
        /\ op[u] = "recv" /\ reader = u /\ pc[u] = "read_frame"
        /\ fromPeer = <<>> /\ peerSent = 1
        /\ rid[t] = Len(toPeer) - 1

(***************************************************************************)
(* C27                                                                     *)
(***************************************************************************)
\* The failure a response with a simulator-error key stands for.
ErrorOf(dict) ==
    IF "bngError" \in DOMAIN dict
    THEN SimulatorError(NativeText(dict["bngError"], "unknown error"))
    ELSE ValueError(NativeText(dict["bngValueError"], "unknown value error"))
\* The step reads a response that carries a simulator error for an id that
\* task t does not await.
ReadsForeignError(t) ==
    /\ Reads(t) /\ FrameRead.enc = "map"
    /\ "_id" \in DOMAIN DictRead
    /\ IsSome(value_as_u64(DictRead["_id"]))
    /\ value_as_u64(DictRead["_id"]) # Some(rid[t])
    /\ DOMAIN DictRead \cap {"bngError", "bngValueError"} # {}

\* C27: a simulator error in a response for a foreign id does not fail the
\* recv that reads it: that recv keeps it as an error payload for the
\* foreign id, stores it in the buffer under that id and goes back to
\* reading; a recv that finds its id in the buffer returns what is stored,
\* so the error comes out, with its kind and text, of the recv for the
\* foreign id and of no other.
C27_ForeignErrorStep ==
    \A t \in Tasks :
        /\ ReadsForeignError(t) =>
              /\ pc'[t] = "insert_lock"
              /\ ret'[t] = NoResult /\ out'[t] = NoResult
              /\ pend'[t] = [id |-> Unwrap(value_as_u64(DictRead["_id"])),
                             stored |-> ErrorOf(DictRead)]
        /\ (pc[t] = "insert" /\ pc'[t] # "insert") =>
              /\ pend[t].id \in DOMAIN buffered'
              /\ buffered'[pend[t].id] = pend[t].stored
              /\ pc'[t] = "reader_lock"
        /\ (pc[t] = "buf_check" /\ pc'[t] = "idle") =>
              /\ ret'[t] = buffered[rid[t]]
              /\ op[t] = "recv" => out'[t] = buffered[rid[t]]

C27_ErrorGoesToItsRecv ==
    \A t \in Callers :
        (Returned(t) /\ op[t] = "recv" /\ out[t].st = "Err") =>
            /\ out[t].kind \in {"SimulatorError", "ValueError"}
            /\ out[t].a = ErrText(rid[t])

C27_ForeignErrorIsStored ==
    [][C27_ForeignErrorStep]_vars /\ []C27_ErrorGoesToItsRecv

\* recv for the id of an earlier request has returned, from the buffer, the
\* value error that a recv for a later id had read and stored.
C27_Witness ==
    /\ op[TheCaller] = "recv" /\ Returned(TheCaller)
    /\ via[TheCaller] = "buffer"
    /\ out[TheCaller] = ValueError(ErrText(rid[TheCaller]))
    /\ \E k \in issued : k > rid[TheCaller]
    /\ buffered = EmptyDict

(***************************************************************************)
(* C28                                                                     *)
(***************************************************************************)
\* C28: with a single caller that issues its operations one after another
\* and a peer that answers every request it receives, after finitely many
\* well-formed frames for foreign ids, every call in progress (the
\* handshake, request, ack, message) eventually returns a result.
C28_EveryCallReturns ==
    \A t \in {Opener, TheCaller} :
        (pc[t] # "idle") ~> (pc[t] = "idle" /\ out[t] # NoResult)

\* An ack has returned Ok after its recv had read and buffered a frame for
\* a foreign id.
C28_Witness ==
    /\ op[TheCaller] = "ack" /\ Returned(TheCaller)
    /\ via[TheCaller] = "reordered"
    /\ out[TheCaller] = OkUnit
    /\ FutureId \in DOMAIN buffered

(***************************************************************************)
(* C29                                                                     *)
(***************************************************************************)
\* Task t looks its id up in the buffer and finds it.
FoundInBuffer(t) ==
    pc[t] = "buf_check" /\ pc'[t] # "buf_check" /\ rid[t] \in DOMAIN buffered

\* C29: a recv whose id is in the pending buffer returns the buffered
\* payload at the lookup: it reads no frame and does not take the read
\* half, removes the entry of its id and no other, and leaves the other
\* entries and the id counter as they are; such a recv is never at the read
\* half.
C29_BufferedStep ==
    \A t \in Tasks :
        FoundInBuffer(t) =>
            /\ pc'[t] = "idle" /\ via'[t] = "buffer"
            /\ ret'[t] = buffered[rid[t]]
            /\ op[t] = "recv" => out'[t] = buffered[rid[t]]
            /\ fromPeer' = fromPeer /\ reader' = reader
            /\ DOMAIN buffered' = DOMAIN buffered \ {rid[t]}
            /\ \A k \in DOMAIN buffered' : buffered'[k] = buffered[k]
            /\ req_id' = req_id

C29_NotAtReadHalf ==
    \A t \in Tasks :
        (pc[t] \notin {"idle", "writer_lock", "write_frame"}
            /\ rid[t] \in DOMAIN buffered) =>
            /\ pc[t] \in {"buf_lock", "buf_check"}
            /\ reader # t

C29_BufferedReturnsAtLookup ==
    [][C29_BufferedStep]_vars /\ []C29_NotAtReadHalf

\* recv has returned a payload from the buffer and the buffer still holds
\* the entry of another id.
C29_Witness ==
    /\ op[TheCaller] = "recv" /\ Returned(TheCaller)
    /\ via[TheCaller] = "buffer"
    /\ out[TheCaller].st = "Ok"
    /\ FutureId \in DOMAIN buffered

(***************************************************************************)
(* C30                                                                     *)
(***************************************************************************)
\* The frames in seq that are responses for id k.
RECURSIVE CountFor(_, _)
CountFor(seq, k) ==
    IF seq = <<>> THEN 0
    ELSE (IF Head(seq).enc = "map" /\ msg_id_of(Unwrap(value_to_str_dict(Head(seq)))) = Some(k)
          THEN 1 ELSE 0) + CountFor(Tail(seq), k)
\* The responses for id k that the connection has and has returned to
\* nobody: unread in the stream, read and about to be stored, or buffered.
Undelivered(k) ==
    CountFor(fromPeer, k)
        + Cardinality({t \in Tasks : pc[t] \in {"insert_lock", "insert"} /\ pend[t].id = k})
        + (IF k \in DOMAIN buffered THEN 1 ELSE 0)
\* A recv of task t returns a response (directly or from the buffer).
Delivers(t) ==
    /\ pc[t] \in {"buf_check", "read_frame"} /\ pc'[t] = "idle"
    /\ via'[t] \in {"buffer", "stream", "reordered"}

\* C30: each response frame is delivered to at most one recv.  A recv that
\* returns a response takes it away from where it was (the stream or the
\* buffer), so that one response fewer for its id is left to return; no
\* other recv returns in the same step; and the responses left to return
\* grow only by a frame the peer sends.  This holds when two callers call
\* recv for the same id concurrently.
C30_DeliveredOnce_Step ==
    (\/ fromPeer' # fromPeer \/ buffered' # buffered \/ pend' # pend
     \/ \E t \in Tasks : Delivers(t)) =>
        LET before == [k \in AwaitIds |-> Undelivered(k)]
            after  == [k \in AwaitIds |-> Undelivered(k)']
        IN  /\ \A t \in Tasks :
                  Delivers(t) =>
                      /\ after[rid[t]] = before[rid[t]] - 1
                      /\ \A k \in AwaitIds \ {rid[t]} : after[k] = before[k]
                      /\ \A u \in Tasks \ {t} : pc'[u] = pc[u] /\ ret'[u] = ret[u]
            /\ \A k \in AwaitIds :
                  after[k] > before[k] =>
                      /\ after[k] = before[k] + 1
                      /\ peerSent' = peerSent + 1
                      /\ \A t \in Tasks : pc'[t] = pc[t]

C30_DeliveredOnce == [][C30_DeliveredOnce_Step]_vars

\* Two callers are in recv for the same id; one has returned the response,
\* the other has found nothing and waits in read_frame for a frame that has
\* not come.
C30_Witness ==
    \E t, u \in Callers :
        /\ t # u
        /\ op[t] = "recv" /\ op[u] = "recv" /\ rid[t] = rid[u]
        /\ Returned(t) /\ out[t].st = "Ok"
        /\ pc[u] = "read_frame" /\ reader = u
        /\ Undelivered(rid[u]) = 0

(***************************************************************************)
(* C31                                                                     *)
(***************************************************************************)
\* The awaits at which a task waits for a lock, and the lock each waits for.
LockAwaits == {"writer_lock", "buf_lock", "reader_lock", "insert_lock"}
HolderAwaited(t) ==
    CASE pc[t] = "writer_lock" -> writer
      [] pc[t] = "reader_lock" -> reader
      [] OTHER -> bufLock

\* C31: no operation holds more than one of the three locks at a time, and
\* a task that waits for a lock holds none; so whoever holds the lock a task
\* waits for is itself not waiting for a lock: no callers wait on each
\* other's locks, under any interleaving of send_raw and recv.
C31_OneLockAtATime ==
    \A t \in Tasks :
        /\ Cardinality(Held(t)) <= 1
        /\ pc[t] \in LockAwaits =>
              /\ Held(t) = {}
              /\ HolderAwaited(t) # Free =>
                    /\ HolderAwaited(t) \in Tasks \ {t}
                    /\ pc[HolderAwaited(t)] \notin LockAwaits \cup {"idle"}

\* One caller holds the read half in read_frame, the stream being empty,
\* while the other caller waits for the read half, holding nothing.
C31_Witness ==
    \E t, u \in Callers :
        /\ t # u
        /\ reader = t /\ pc[t] = "read_frame" /\ fromPeer = <<>>
        /\ pc[u] = "reader_lock" /\ Held(u) = {}
        /\ writer = Free /\ bufLock = Free

(***************************************************************************)
(* C32                                                                     *)
(***************************************************************************)
\* The ids of the request frames written so far, in order.
WireIds == [i \in 1..Len(toPeer) |-> WireId(i)]
\* No value occurs twice in seq.
Distinct(seq) == \A i, j \in 1..Len(seq) : seq[i] = seq[j] => i = j
\* The write of task t's send_raw is refused in this step.
WriteRefused(t) == pc[t] = "write_frame" /\ out'[t] = Io("write")

\* C32: every send_raw takes one id, advancing the counter by exactly 1, and
\* tries to write one frame at most, whether the write succeeds or fails.
\* The step in which a write is refused returns the failure at once: no
\* frame goes out, the write is not tried again, and request does not go on
\* to recv (the stream and the read half are untouched).  No id is handed
\* out twice, so the id of a failed send is not used again, and it never
\* appears on the wire.
C32_SendStep ==
    \A t \in Tasks :
        /\ (pc[t] = "idle" /\ pc'[t] = "writer_lock") =>
              /\ rid'[t] = req_id
              /\ req_id' = req_id + 1
              /\ toPeer' = toPeer
        /\ (pc[t] # "idle" \/ pc'[t] # "writer_lock") =>
              (pc'[t] # pc[t] => req_id' = req_id)
        /\ WriteRefused(t) =>
              /\ pc'[t] = "idle"
              /\ toPeer' = toPeer
              /\ fromPeer' = fromPeer /\ reader' = reader
              /\ buffered' = buffered
              /\ writer' = Free

C32_OneIdOneFrame ==
    /\ Distinct(allocated)
    /\ Distinct(WireIds)
    /\ Len(allocated) = req_id
    /\ \A i \in 1..Len(toPeer) : \E j \in 1..Len(allocated) : allocated[j] = WireId(i)
    /\ \A t \in Tasks :
          (Returned(t) /\ out[t] = Io("write")) =>
              /\ \A i \in 1..Len(toPeer) : WireId(i) # rid[t]
              /\ ret[t] = NoResult

C32_FailedSendIsFinal == [][C32_SendStep]_vars /\ []C32_OneIdOneFrame

\* A request has failed at its write; the next id has been handed out since
\* and its frame is on the wire.
C32_Witness ==
    \E t \in Callers :
        /\ op[t] = "request" /\ Returned(t) /\ out[t] = Io("write")
        /\ req_id > rid[t] + 1
        /\ \E i \in 1..Len(toPeer) : WireId(i) = rid[t] + 1

(***************************************************************************)
(* C33                                                                     *)
(***************************************************************************)
\* The stamp of a decoded response, and of a frame.
StampOf(dict) == dict["result"].n
FrameStamp(frame) == StampOf(Unwrap(value_to_str_dict(frame)))
\* The stamps of the responses the connection has and has returned to
\* nobody: unread in the stream, read and about to be stored, or buffered.
InStreamStamps == { FrameStamp(fromPeer[i]) : i \in 1..Len(fromPeer) }
InHandStamps ==
    { StampOf(pend[t].stored.dict) :
        t \in { u \in Tasks : pc[u] \in {"insert_lock", "insert"} } }
BufferedStamps == { StampOf(buffered[k].dict) : k \in DOMAIN buffered }
Present == InStreamStamps \cup InHandStamps \cup BufferedStamps
\* Task t stores a payload under an id that is in the buffer already.
Replaces(t) ==
    pc[t] = "insert" /\ pc'[t] # "insert" /\ pend[t].id \in DOMAIN buffered

\* C33: the buffer holds one payload per id.  A foreign response whose id is
\* buffered already takes the place of the earlier payload, which is then
\* nowhere in the connection; a recv returns only a response that was in
\* the stream or in the buffer just before, and nothing but a new frame of
\* the peer adds to those: so the replaced payload is returned by no recv.
C33_ReplaceStep ==
    /\ \A t \in Tasks :
          /\ Replaces(t) =>
                /\ DOMAIN buffered' = DOMAIN buffered
                /\ buffered'[pend[t].id] = pend[t].stored
                /\ \A k \in DOMAIN buffered \ {pend[t].id} : buffered'[k] = buffered[k]
                /\ StampOf(buffered[pend[t].id].dict) \notin Present'
          /\ (pc[t] # "idle" /\ pc'[t] = "idle" /\ ret'[t].st = "Ok") =>
                /\ StampOf(ret'[t].dict) \in Present
                /\ StampOf(ret'[t].dict) \notin Present'
    /\ Present' \subseteq Present \cup {peerSent'}

C33_OnePerId ==
    /\ Cardinality(BufferedStamps) = Cardinality(DOMAIN buffered)
    /\ \A k \in DOMAIN buffered : msg_id_of(buffered[k].dict) = Some(k)

C33_LaterPayloadReplaces == [][C33_ReplaceStep]_vars /\ []C33_OnePerId

\* The peer has sent two responses for id 1 and then the handshake's; the
\* handshake has buffered the first, replaced it by the second and returned
\* the third, and recv(1) has returned the second from the buffer: the
\* first is nowhere.
C33_Witness ==
    /\ peerSent = 3 /\ fromPeer = <<>> /\ buffered = EmptyDict
    /\ StampOf(ret[Opener].dict) = 3
    /\ op[TheCaller] = "recv" /\ rid[TheCaller] = 1 /\ Returned(TheCaller)
    /\ via[TheCaller] = "buffer"
    /\ StampOf(out[TheCaller].dict) = 2

(***************************************************************************)
(* C34                                                                     *)
(***************************************************************************)
\* The frames of the payloads in seq, one after the other.
RECURSIVE FramesOf(_)
FramesOf(seq) ==
    IF seq = <<>> THEN <<>> ELSE write_frame(Head(seq)) \o FramesOf(Tail(seq))
\* The unread bytes of the stream begin with the header of a frame that was
\* written: they are the last frames written, whole.
AtFrameBoundary ==
    \E j \in 1..(Len(written) + 1) :
        wire = FramesOf(SubSeq(written, j, Len(written)))

\* C34 as claimed: when no read_frame is in progress (none was begun, the
\* last returned, or its recv was abandoned at an await), the read half is
\* at a frame boundary, so that the next read_frame takes a header for a
\* header.
C34_CancelLeavesFrameBoundary == rstate = "idle" => AtFrameBoundary

(***************************************************************************)
(* C35                                                                     *)
(***************************************************************************)
\* The handshake's response has neither the client's version nor the type
\* Hello.
BothWrong == HelloAnswered /\ Theirs # PROTOCOL_VERSION /\ Got # "Hello"

\* C35 as claimed: a Hello response in which both the type and the
\* protocolVersion are wrong (or protocolVersion is missing) fails open
\* with ProtocolMismatch, and UnexpectedResponseType is produced only when
\* the version matches.
C35_VersionBeforeType ==
    /\ BothWrong => out[Opener] = ProtocolMismatch(PROTOCOL_VERSION, Theirs)
    /\ (HelloAnswered /\ out[Opener].kind = "UnexpectedResponseType") =>
          Theirs = PROTOCOL_VERSION

\* C35, amended: such a response fails open with ProtocolMismatch when it
\* carries no simulator-error key, and with the simulator's error when it
\* carries one (recv looks for the error keys before hello looks at the
\* version); UnexpectedResponseType is produced only when the version
\* matches, and open never succeeds on such a response.
C35_VersionBeforeTypeUnlessError ==
    /\ BothWrong =>
          /\ ~CarriesError =>
                out[Opener] = ProtocolMismatch(PROTOCOL_VERSION, Theirs)
          /\ CarriesError => out[Opener].kind \in {"SimulatorError", "ValueError"}
          /\ phase = "failed"
    /\ (HelloAnswered /\ out[Opener].kind = "UnexpectedResponseType") =>
          /\ Theirs = PROTOCOL_VERSION
          /\ ~CarriesError

\* open has failed with ProtocolMismatch on a response of type Paused that
\* carries no protocolVersion.
C35_Witness ==
    /\ HelloAnswered /\ Theirs = "" /\ Got = "Paused" /\ ~CarriesError
    /\ out[Opener] = ProtocolMismatch(PROTOCOL_VERSION, "")
    /\ phase = "failed"

(***************************************************************************)
(* C36                                                                     *)
(***************************************************************************)
\* Task t's operation has returned on the response for its id, whose map is
\* Answered(t).
GotAnswer(t) == Returned(t) /\ IsSome(matched[t])
Answered(t) == Unwrap(matched[t])

\* C36: a response that contains bngError, with or without bngValueError,
\* is classified as SimulatorError with the text of bngError; ValueError is
\* produced only for a response without bngError, and carries the text of
\* bngValueError.
C36_BngErrorWins ==
    \A t \in Tasks :
        GotAnswer(t) =>
            /\ "bngError" \in DOMAIN Answered(t) =>
                  ret[t] = SimulatorError(NativeText(Answered(t)["bngError"],
                                                     "unknown error"))
            /\ ret[t].kind = "ValueError" =>
                  /\ "bngError" \notin DOMAIN Answered(t)
                  /\ "bngValueError" \in DOMAIN Answered(t)
                  /\ ret[t] = ValueError(NativeText(Answered(t)["bngValueError"],
                                                    "unknown value error"))

\* A request has failed with SimulatorError("boom") on a response that
\* carries both keys.
C36_Witness ==
    /\ GotAnswer(TheCaller) /\ op[TheCaller] = "request"
    /\ {"bngError", "bngValueError"} \subseteq DOMAIN Answered(TheCaller)
    /\ out[TheCaller] = SimulatorError("boom")

(***************************************************************************)
(* C37                                                                     *)
(***************************************************************************)
\* The step reads a frame that is no msgpack value, no map, or a map
\* without a numeric `_id`.
ReadsBad(t) ==
    /\ Reads(t) /\ fromPeer # <<>>
    /\ \/ FrameRead.enc # "map"
       \/ "_id" \notin DOMAIN DictRead
       \/ DictRead["_id"].k \notin {"int", "f64"}

\* C37: the step in which recv fails with MissingId or with a decode
\* failure consumes the offending frame whole, so that the stream stands at
\* the next frame, and leaves the pending buffer (with what the same call
\* has deposited), the id counter and the locks as they were; a recv that
\* returns a response afterwards still returns the response of its id.
C37_BadFrameStep ==
    \A t \in Tasks :
        ReadsBad(t) =>
            /\ pc'[t] = "idle"
            /\ ret'[t] = (IF FrameRead.enc = "garbage" THEN Io("decode") ELSE MissingId)
            /\ fromPeer' = Tail(fromPeer)
            /\ buffered' = buffered
            /\ req_id' = req_id
            /\ reader' = Free /\ bufLock' = bufLock /\ writer' = writer
            /\ pend' = pend

C37_StillCorrelated ==
    \A t \in Tasks :
        (Returned(t) /\ op[t] = "recv" /\ out[t].st = "Ok") =>
            msg_id_of(out[t].dict) = Some(rid[t])

C37_FailureLeavesStateIntact ==
    [][C37_BadFrameStep]_vars /\ []C37_StillCorrelated

\* recv(2) had deposited the response for id 1 and then failed on a bad
\* frame; called again, it has returned the response for id 2 straight
\* from the stream, and the response for id 1 is still in the buffer.
C37_Witness ==
    /\ op[TheCaller] = "recv" /\ rid[TheCaller] = 2 /\ Returned(TheCaller)
    /\ via[TheCaller] = "stream"
    /\ msg_id_of(out[TheCaller].dict) = Some(2)
    /\ DOMAIN buffered = {1}
    /\ BadSent = 1 /\ fromPeer = <<>>

(***************************************************************************)
(* C38                                                                     *)
(***************************************************************************)
\* hello has returned Ok on a response that carries the client's version
\* under type "Hello".
HandshakePassed ==
    /\ HelloAnswered
    /\ Theirs = PROTOCOL_VERSION /\ Got = "Hello"
    /\ out[Opener] = OkUnit

\* C38: the first frame on the wire is the Hello request with `_id` 0 and
\* the client's protocolVersion, written by the handshake; as long as the
\* Hello response has not been received and passed the version check and
\* the type check, the wire carries no second frame and no caller has
\* begun an operation.
C38_HelloBeforeAnyRequest ==
    /\ Len(toPeer) >= 1 =>
          /\ toPeer[1].by = Opener
          /\ WireDict(1)["type"] = StrV("Hello")
          /\ WireDict(1)["_id"] = IntV(0)
          /\ WireDict(1)["protocolVersion"] = StrV(PROTOCOL_VERSION)
    /\ ~HandshakePassed =>
          /\ Len(toPeer) <= 1
          /\ \A t \in Callers : op[t] = "none" /\ pc[t] = "idle"
    /\ \A i \in 2..Len(toPeer) : toPeer[i].by # Opener /\ WireId(i) # 0

\* The handshake has passed and the caller's request, with `_id` 1, is the
\* second frame on the wire.
C38_Witness ==
    /\ HandshakePassed
    /\ Len(toPeer) = 2
    /\ toPeer[2].by = TheCaller /\ WireId(2) = 1
    /\ WireDict(1)["type"] = StrV("Hello")

=============================================================================
